---------------------------- MODULE Spec2Model ----------------------------
(***************************************************************************)
(* A model of the Datum codec (datum-rs): the character classifier, the    *)
(* escape decoder, the tokenizer, the token -> tree parser, the writer and *)
(* the push pipeline (feed / end-of-input, composition) that chains them.  *)
(*                                                                         *)
(* Characters are code points (naturals), strings are sequences of code    *)
(* points.  A stage's feed is an operator                                  *)
(*     Feed(st, at, i, fail) -> [st, outs, res]                            *)
(* st   the stage's state, at the caller's offset, i the input (None for   *)
(* end of input), fail the index of the emission whose callback returns an *)
(* error (0: every callback succeeds).  outs are the emissions made, res   *)
(* the result returned; CbErr stands for "the error the callback gave".    *)
(***************************************************************************)
EXTENDS Integers, Sequences, FiniteSets, TLC

VARIABLES
    pipe,   \* the state of the stage or pipeline being driven
    src,    \* the value that was written to produce the input (or NoSrc)
    text,   \* the characters still to be fed (written text), if any
    fed,    \* the inputs fed so far, in order
    out,    \* every emission the caller's callback has received, in order
    res,    \* the result of the last feed call
    pc,     \* "run": accepting input, "done": end of input fed, "error"
    call    \* a log of the last feed call of the outermost composition

vars == <<pipe, src, text, fed, out, res, pc, call>>

---------------------------------------------------------------------------
(* Characters the source names.                                            *)
CH_TAB == 9
CH_LF == 10
CH_CR == 13
CH_US == 31
CH_SPACE == 32
CH_QUOTE == 34
CH_HASH == 35
CH_LPAREN == 40
CH_RPAREN == 41
CH_PLUS == 43
CH_MINUS == 45
CH_DOT == 46
CH_0 == 48
CH_9 == 57
CH_SEMI == 59
CH_BACKSLASH == 92
CH_DEL == 127
CH_MAX == 1114111

---------------------------------------------------------------------------
(* Options and results.                                                    *)
None == [some |-> FALSE]
Some(v) == [some |-> TRUE, v |-> v]

Ok == [kind |-> "Ok", offset |-> 0]
Err(kind, at) == [kind |-> kind, offset |-> at]
\* The error value a failing callback returned, before the caller names it.
CbErr == [kind |-> "Callback", offset |-> 0]
IsOk(r) == r.kind = "Ok"

Emission(at, v) == [at |-> at, v |-> v]

\* A stage that emits plan (in order) and then moves from st to stNew: the
\* callback whose index is fail returns an error, which the stage returns at
\* once (`f(..)?`) without assigning its new state.
EmitAll(st, stNew, plan, fail) ==
    IF fail \in 1..Len(plan)
    THEN [st |-> st, outs |-> SubSeq(plan, 1, fail), res |-> CbErr]
    ELSE [st |-> stNew, outs |-> plan, res |-> Ok]

Fails(st, e) == [st |-> st, outs |-> <<>>, res |-> e]

---------------------------------------------------------------------------
(* Character classifier.                                                   *)
\* A classifier that takes the plus sign for a sign.
IdentifyPlusSign(v) ==
    IF v = CH_LF THEN "Newline"
    ELSE IF v = CH_TAB \/ v = CH_SPACE THEN "Whitespace"
    ELSE IF v < CH_SPACE \/ v = CH_DEL \/ v = CH_BACKSLASH THEN "None"
    ELSE IF v = CH_SEMI THEN "LineComment"
    ELSE IF v = CH_QUOTE THEN "String"
    ELSE IF v = CH_LPAREN THEN "ListStart"
    ELSE IF v = CH_RPAREN THEN "ListEnd"
    ELSE IF v = CH_HASH THEN "SpecialID"
    ELSE IF v = CH_MINUS \/ v = CH_PLUS THEN "Sign"
    ELSE IF v >= CH_0 /\ v <= CH_9 THEN "Digit"
    ELSE "Content"

\* DatumCharClass::identify; "None" is the None it returns.
Identify(v) ==
    IF v = CH_LF THEN "Newline"
    ELSE IF v = CH_TAB \/ v = CH_SPACE THEN "Whitespace"
    ELSE IF v < CH_SPACE \/ v = CH_DEL \/ v = CH_BACKSLASH THEN "None"
    ELSE IF v = CH_SEMI THEN "LineComment"
    ELSE IF v = CH_QUOTE THEN "String"
    ELSE IF v = CH_LPAREN THEN "ListStart"
    ELSE IF v = CH_RPAREN THEN "ListEnd"
    ELSE IF v = CH_HASH THEN "SpecialID"
    ELSE IF v = CH_MINUS THEN "Sign"
    ELSE IF v >= CH_0 /\ v <= CH_9 THEN "Digit"
    ELSE "Content"

ClassPotentialIdentifier(class) ==
    class \in {"Content", "Sign", "Digit", "SpecialID"}

DatumChar(c, class) == [char |-> c, class |-> class]

\* DatumChar::identify: None for a meta-class character.
DatumCharIdentify(v) ==
    IF Identify(v) = "None" THEN None ELSE Some(DatumChar(v, Identify(v)))

DatumCharContent(v) == DatumChar(v, "Content")

DatumCharPotentialIdentifier(v) ==
    IF Identify(v) = "None" THEN DatumCharContent(v)
    ELSE IF ClassPotentialIdentifier(Identify(v)) THEN DatumChar(v, Identify(v))
    ELSE DatumCharContent(v)

MakeHexDigit(v) == IF v >= 10 THEN 97 + (v - 10) ELSE CH_0 + v

\* make_byte_hex_escape takes a u8: the callers cast with `as u8`.
MakeByteHexEscape(v) ==
    LET b == v % 256
    IN  <<CH_BACKSLASH, 120, MakeHexDigit(b \div 16), MakeHexDigit(b % 16), CH_SEMI>>

\* A writer that escapes nothing.
EmitRaw(dc) == <<dc.char>>

\* From<DatumChar> for DatumCharEmit: the characters that write the pair.
Emit(dc) ==
    LET v == dc.char
    IN  IF dc.class = "Content"
        THEN IF v = CH_LF THEN <<CH_BACKSLASH, 110>>
             ELSE IF v = CH_CR THEN <<CH_BACKSLASH, 114>>
             ELSE IF v = CH_TAB THEN <<CH_BACKSLASH, 116>>
             ELSE IF v < 32 \/ v = CH_US THEN MakeByteHexEscape(v)
             ELSE IF Identify(v) = "Content" THEN <<v>>
             ELSE <<CH_BACKSLASH, v>>
        ELSE <<v>>

---------------------------------------------------------------------------
(* Decoder.  The accumulated code point of a hex escape is a u32, kept as  *)
(* its two 16-bit halves so that the shift drops the bits a u32 drops.     *)
U32(hi, lo) == [hi |-> hi, lo |-> lo]

\* v << 4 | digit on a u32.
U32Shl4Or(v, digit) ==
    U32(((v.hi % 4096) * 16) + (v.lo \div 4096), ((v.lo % 4096) * 16) + digit)

IsScalarValue(n) == n <= CH_MAX /\ ~(n >= 55296 /\ n <= 57343)

\* char::from_u32: None unless the value is a Unicode scalar value.
CharFromU32(v) ==
    IF v.hi <= 16 /\ IsScalarValue((v.hi * 65536) + v.lo)
    THEN Some((v.hi * 65536) + v.lo)
    ELSE None

\* char::to_digit(16): -1 for a character that is no hex digit.
ToDigit16(c) ==
    IF c >= CH_0 /\ c <= CH_9 THEN c - CH_0
    ELSE IF c >= 97 /\ c <= 102 THEN c - 87
    ELSE IF c >= 65 /\ c <= 70 THEN c - 55
    ELSE -1

\* Escaping and HexEscape also hold the offset the escape began at.
DecNormal == [mode |-> "Normal", start |-> 0, v |-> U32(0, 0)]
DecEscaping(start) == [mode |-> "Escaping", start |-> start, v |-> U32(0, 0)]
DecHexEscape(start, v) == [mode |-> "HexEscape", start |-> start, v |-> v]

\* The offset reported with the character an escape gives: the offset of
\* the character that completed the escape.
EscapeCompleted(st, at) == at

\* The offset reported with the character an escape gives: the offset the
\* escape began at, the one of its backslash.
EscapeStart(st, at) == st.start

DatumDecoderDefault == DecNormal

\* A Normal state that lets a forbidden character through as content.
DecoderFeedNormalLenient(st, at, c, fail) ==
    IF c = CH_BACKSLASH THEN EmitAll(st, DecEscaping(at), <<>>, fail)
    ELSE IF DatumCharIdentify(c).some
    THEN EmitAll(st, DecNormal, <<Emission(at, DatumCharIdentify(c).v)>>, fail)
    ELSE EmitAll(st, DecNormal, <<Emission(at, DatumCharContent(c))>>, fail)

DecoderFeedNormal(st, at, c, fail) ==
    IF c = CH_BACKSLASH THEN EmitAll(st, DecEscaping(at), <<>>, fail)
    ELSE IF DatumCharIdentify(c).some
    THEN EmitAll(st, DecNormal, <<Emission(at, DatumCharIdentify(c).v)>>, fail)
    ELSE Fails(st, Err("BadData", at))

\* An Escaping state in which a raw newline completes the escape.
DecoderFeedEscapingSpansLines(st, at, c, fail) ==
    IF c = 114 THEN EmitAll(st, DecNormal, <<Emission(EscapeStart(st, at), DatumCharContent(CH_CR))>>, fail)
    ELSE IF c = 110 THEN EmitAll(st, DecNormal, <<Emission(EscapeStart(st, at), DatumCharContent(CH_LF))>>, fail)
    ELSE IF c = 116 THEN EmitAll(st, DecNormal, <<Emission(EscapeStart(st, at), DatumCharContent(CH_TAB))>>, fail)
    ELSE IF c = 120 THEN EmitAll(st, DecHexEscape(st.start, U32(0, 0)), <<>>, fail)
    ELSE EmitAll(st, DecNormal, <<Emission(EscapeStart(st, at), DatumCharContent(c))>>, fail)

DecoderFeedEscaping(st, at, c, fail) ==
    IF c = 114 THEN EmitAll(st, DecNormal, <<Emission(EscapeStart(st, at), DatumCharContent(CH_CR))>>, fail)
    ELSE IF c = 110 THEN EmitAll(st, DecNormal, <<Emission(EscapeStart(st, at), DatumCharContent(CH_LF))>>, fail)
    ELSE IF c = 116 THEN EmitAll(st, DecNormal, <<Emission(EscapeStart(st, at), DatumCharContent(CH_TAB))>>, fail)
    ELSE IF c = 120 THEN EmitAll(st, DecHexEscape(st.start, U32(0, 0)), <<>>, fail)
    ELSE IF c = CH_LF THEN Fails(st, Err("BadData", at))
    ELSE EmitAll(st, DecNormal, <<Emission(EscapeStart(st, at), DatumCharContent(c))>>, fail)

DecoderFeedHexEscape(st, at, c, fail) ==
    IF c = CH_SEMI
    THEN IF CharFromU32(st.v).some
         THEN EmitAll(st, DecNormal,
                      <<Emission(EscapeStart(st, at), DatumCharContent(CharFromU32(st.v).v))>>,
                      fail)
         ELSE Fails(st, Err("BadData", at))
    ELSE IF ToDigit16(c) >= 0
         THEN EmitAll(st, DecHexEscape(st.start, U32Shl4Or(st.v, ToDigit16(c))), <<>>, fail)
         ELSE Fails(st, Err("BadData", at))

\* A feed that hands the carriage return to the state it is in.
DecoderFeedCharKeepsCR(st, at, c, fail) ==
    IF st.mode = "Normal" THEN DecoderFeedNormal(st, at, c, fail)
    ELSE IF st.mode = "Escaping" THEN DecoderFeedEscaping(st, at, c, fail)
    ELSE DecoderFeedHexEscape(st, at, c, fail)

\* DatumDecoder::feed(char, f)
DecoderFeedChar(st, at, c, fail) ==
    IF c = CH_CR THEN [st |-> st, outs |-> <<>>, res |-> Ok]
    ELSE IF st.mode = "Normal" THEN DecoderFeedNormal(st, at, c, fail)
    ELSE IF st.mode = "Escaping" THEN DecoderFeedEscaping(st, at, c, fail)
    ELSE DecoderFeedHexEscape(st, at, c, fail)

\* An end of input that reports the interruption and keeps the state.
DecoderEofKeepsState(st, at) ==
    IF st.mode # "Normal" THEN Fails(st, Err("Interrupted", at))
    ELSE [st |-> st, outs |-> <<>>, res |-> Ok]

\* DatumDecoder::eof(f)
DecoderEof(st, at) ==
    IF st.mode # "Normal" THEN Fails(DecNormal, Err("Interrupted", at))
    ELSE [st |-> st, outs |-> <<>>, res |-> Ok]

\* The decoder as a stage of the pipe protocol: Some(c) is feed, None is eof.
DecoderFeed(st, at, i, fail) ==
    IF i.some THEN DecoderFeedChar(st, at, i.v, fail) ELSE DecoderEof(st, at)

---------------------------------------------------------------------------
(* 64-bit integers.  A u64 or i64 is its four 16-bit limbs, most           *)
(* significant first; an i64 is in two's complement, so equal values are   *)
(* equal tuples.                                                           *)
LIMB == 256 * 256

U64Zero == <<0, 0, 0, 0>>

\* m * r + x for a small r and x: the low 64 bits and the carry out of them.
U64MulAdd(m, r, x) ==
    LET t0 == (m[4] * r) + x
        t1 == (m[3] * r) + (t0 \div LIMB)
        t2 == (m[2] * r) + (t1 \div LIMB)
        t3 == (m[1] * r) + (t2 \div LIMB)
    IN  [v |-> <<t3 % LIMB, t2 % LIMB, t1 % LIMB, t0 % LIMB>>, carry |-> t3 \div LIMB]

\* m divided by 10: quotient and remainder.
U64DivMod10(m) ==
    LET c1 == m[1]
        c2 == ((c1 % 10) * LIMB) + m[2]
        c3 == ((c2 % 10) * LIMB) + m[3]
        c4 == ((c3 % 10) * LIMB) + m[4]
    IN  [q |-> <<c1 \div 10, c2 \div 10, c3 \div 10, c4 \div 10>>, r |-> c4 % 10]

\* (!m).wrapping_add(1): the two's complement negation.
U64Neg(m) ==
    U64MulAdd(<<(LIMB - 1) - m[1], (LIMB - 1) - m[2], (LIMB - 1) - m[3], (LIMB - 1) - m[4]>>, 1, 1).v

I64IsNegative(v) == v[1] >= 32768

\* The magnitude taken for the value, whatever the sign.
I64OfMagnitude(negative, mag) == mag

\* An i64 given by a sign and a magnitude that fits it.
I64Of(negative, mag) == IF negative THEN U64Neg(mag) ELSE mag

I64MinMag == <<32768, 0, 0, 0>>

\* The decimal digits of a u64, without leading zeros ("0" for zero).
RECURSIVE U64Digits(_)
U64Digits(m) ==
    LET d == U64DivMod10(m)
    IN  IF d.q = U64Zero THEN <<CH_0 + d.r>>
        ELSE U64Digits(d.q) \o <<CH_0 + d.r>>

\* format_args!("{}", v) for an i64: the sign, then the magnitude's digits.
FormatI64(v) ==
    IF I64IsNegative(v) THEN <<CH_MINUS>> \o U64Digits(U64Neg(v)) ELSE U64Digits(v)

\* char::to_digit(radix) for radix 10 or 16: -1 for no digit.
ToDigit(c, radix) ==
    IF radix = 16 THEN ToDigit16(c)
    ELSE IF c >= CH_0 /\ c <= CH_9 THEN c - CH_0 ELSE -1

\* The checked multiply-and-add (or subtract) loop of i64::from_str_radix,
\* on the magnitude: acc is None once a digit is invalid or the value left
\* the range of an i64 of that sign.
RECURSIVE ParseDigits(_, _, _, _)
ParseDigits(digits, radix, negative, acc) ==
    IF digits = <<>> THEN Some(acc)
    ELSE LET x == ToDigit(Head(digits), radix)
             n == U64MulAdd(acc, radix, IF x < 0 THEN 0 ELSE x)
             fits == n.carry = 0
                     /\ (n.v[1] < 32768 \/ (negative /\ n.v = I64MinMag))
         IN  IF x < 0 \/ ~fits THEN None
             ELSE ParseDigits(Tail(digits), radix, negative, n.v)

\* i64::from_str_radix: an optional sign, then at least one digit.
ParseI64(s, radix) ==
    IF s = <<>> THEN None
    ELSE IF Head(s) \in {CH_PLUS, CH_MINUS} /\ Len(s) = 1 THEN None
    ELSE LET negative == Head(s) = CH_MINUS
             digits == IF Head(s) \in {CH_PLUS, CH_MINUS} THEN Tail(s) ELSE s
             mag == ParseDigits(digits, radix, negative, U64Zero)
         IN  IF mag.some THEN Some(I64Of(negative, mag.v)) ELSE None

---------------------------------------------------------------------------
(* Floats.  A float value is carried as text: "NaN", "inf", "-inf" for the *)
(* specials, and for a finite value the decimal text that denotes it (what *)
(* was parsed, or what `{:?}` prints).  Only its kind and its text are     *)
(* used; no arithmetic is done on floats.                                  *)
FloatNaN == <<78, 97, 78>>
FloatInf == <<105, 110, 102>>
FloatNegInf == <<CH_MINUS, 105, 110, 102>>

\* A comparison that tells the cases apart.
ToAsciiSame(c) == c

ToAsciiLower(c) == IF c >= 65 /\ c <= 90 THEN c + 32 ELSE c
AsciiLower(s) == [k \in 1..Len(s) |-> ToAsciiLower(s[k])]
EqIgnoreAsciiCase(s, t) == AsciiLower(s) = AsciiLower(t)

IsDigitChar(c) == c >= CH_0 /\ c <= CH_9

\* The number of leading decimal digits of s.
RECURSIVE DigitRun(_)
DigitRun(s) ==
    IF s = <<>> \/ ~IsDigitChar(Head(s)) THEN 0 ELSE 1 + DigitRun(Tail(s))

Drop(s, n) == SubSeq(s, n + 1, Len(s))

\* The exponent of a decimal float: e or E, an optional sign, digits.
IsExponent(s) ==
    /\ s # <<>>
    /\ Head(s) \in {101, 69}
    /\ LET r == IF Len(s) >= 2 /\ s[2] \in {CH_PLUS, CH_MINUS} THEN Drop(s, 2) ELSE Drop(s, 1)
       IN  r # <<>> /\ DigitRun(r) = Len(r)

\* The decimal grammar of f64::from_str after the sign: digits, an optional
\* point and digits (one digit at least in all), an optional exponent.
IsDecimal(s) ==
    LET n1 == DigitRun(s)
        a == Drop(s, n1)
        point == a # <<>> /\ Head(a) = CH_DOT
        n2 == IF point THEN DigitRun(Tail(a)) ELSE 0
        b == IF point THEN Drop(a, 1 + n2) ELSE a
    IN  n1 + n2 > 0 /\ (b = <<>> \/ IsExponent(b))

\* f64::from_str: None when the text is no float, else the value.
ParseF64(s) ==
    IF s = <<>> THEN None
    ELSE LET negative == Head(s) = CH_MINUS
             r == IF Head(s) \in {CH_PLUS, CH_MINUS} THEN Tail(s) ELSE s
             low == AsciiLower(r)
         IN  IF r = <<>> THEN None
             ELSE IF IsDecimal(r) THEN Some(s)
             ELSE IF low = <<110, 97, 110>> THEN Some(FloatNaN)
             ELSE IF low = FloatInf \/ low = <<105, 110, 102, 105, 110, 105, 116, 121>>
                  THEN Some(IF negative THEN FloatNegInf ELSE FloatInf)
             ELSE None

---------------------------------------------------------------------------
(* Tokenizer state machine.                                                *)
TokStart == [mode |-> "Start", start |-> 0, immediate |-> "ID", expanded |-> "ID"]
TokLineComment == [mode |-> "LineComment", start |-> 0, immediate |-> "ID", expanded |-> "ID"]
TokString(start) == [mode |-> "String", start |-> start, immediate |-> "ID", expanded |-> "ID"]
\* A pending token whose kind never changes with more characters.
TokPotentialIdentifierNeverExpands(start, immediate, expanded) ==
    [mode |-> "PotentialIdentifier", start |-> start,
     immediate |-> immediate, expanded |-> immediate]

TokPotentialIdentifier(start, immediate, expanded) ==
    [mode |-> "PotentialIdentifier", start |-> start,
     immediate |-> immediate, expanded |-> expanded]

DatumTokenizerDefault == TokStart

Push(c) == [act |-> "Push", char |-> c, type |-> "ID"]
Token(type) == [act |-> "Token", char |-> 0, type |-> type]

\* What a feed does when every callback succeeds: the actions it emits, in
\* order, and the state it assigns after them.
Plan(st, acts) == [st |-> st, acts |-> acts]

\* DatumTokenizer::start_feed
StartFeed(at, chr) ==
    CASE chr.class = "Content" ->
            Plan(TokPotentialIdentifier(at, "ID", "ID"), <<Emission(at, Push(chr.char))>>)
      [] chr.class = "Whitespace" -> Plan(TokStart, <<>>)
      [] chr.class = "Newline" -> Plan(TokStart, <<>>)
      [] chr.class = "LineComment" -> Plan(TokLineComment, <<>>)
      [] chr.class = "String" -> Plan(TokString(at), <<>>)
      [] chr.class = "ListStart" -> Plan(TokStart, <<Emission(at, Token("ListStart"))>>)
      [] chr.class = "ListEnd" -> Plan(TokStart, <<Emission(at, Token("ListEnd"))>>)
      [] chr.class = "SpecialID" ->
            Plan(TokPotentialIdentifier(at, "SpecialID", "SpecialID"), <<>>)
      [] chr.class = "Sign" ->
            Plan(TokPotentialIdentifier(at, "ID", "Numeric"), <<Emission(at, Push(chr.char))>>)
      [] chr.class = "Digit" ->
            Plan(TokPotentialIdentifier(at, "Numeric", "Numeric"), <<Emission(at, Push(chr.char))>>)

\* A line comment that a newline does not end.
TokenizerPlanLineCommentEndless(st, at, chr) ==
    IF ~chr.some THEN Plan(TokStart, <<>>)
    ELSE Plan(TokLineComment, <<>>)

TokenizerPlanLineComment(st, at, chr) ==
    IF ~chr.some THEN Plan(TokStart, <<>>)
    ELSE IF chr.v.class = "Newline" THEN Plan(TokStart, <<>>)
    ELSE Plan(TokLineComment, <<>>)

TokenizerPlanString(st, at, chr) ==
    IF chr.v.class = "String"
    THEN Plan(TokStart, <<Emission(st.start, Token("String"))>>)
    ELSE Plan(TokString(st.start), <<Emission(at, Push(chr.v.char))>>)

\* A pending token closed as the kind it would have had with more characters.
TokenizerPlanClosesExpanded(st, at, chr) ==
    IF ~chr.some
    THEN Plan(TokStart, <<Emission(st.start, Token(st.expanded))>>)
    ELSE IF ClassPotentialIdentifier(chr.v.class)
    THEN Plan(TokPotentialIdentifier(st.start, st.expanded, st.expanded),
              <<Emission(at, Push(chr.v.char))>>)
    ELSE Plan(StartFeed(at, chr.v).st,
              <<Emission(st.start, Token(st.expanded))>> \o StartFeed(at, chr.v).acts)

\* A pending token closed by a character that is then dropped.
TokenizerPlanDropsCharacter(st, at, chr) ==
    IF ~chr.some
    THEN Plan(TokStart, <<Emission(st.start, Token(st.immediate))>>)
    ELSE IF ClassPotentialIdentifier(chr.v.class)
    THEN Plan(TokPotentialIdentifier(st.start, st.expanded, st.expanded),
              <<Emission(at, Push(chr.v.char))>>)
    ELSE Plan(TokStart, <<Emission(st.start, Token(st.immediate))>>)

TokenizerPlanPotentialIdentifier(st, at, chr) ==
    IF ~chr.some
    THEN Plan(TokStart, <<Emission(st.start, Token(st.immediate))>>)
    ELSE IF ClassPotentialIdentifier(chr.v.class)
    THEN Plan(TokPotentialIdentifier(st.start, st.expanded, st.expanded),
              <<Emission(at, Push(chr.v.char))>>)
    ELSE Plan(StartFeed(at, chr.v).st,
              <<Emission(st.start, Token(st.immediate))>> \o StartFeed(at, chr.v).acts)

\* A tokenizer for which the end of input inside a string is clean.
TokenizerFeedStringEofOk(st, at, chr, fail) ==
    IF st.mode = "String" /\ ~chr.some
    THEN [st |-> TokStart, outs |-> <<>>, res |-> Ok]
    ELSE LET p == CASE st.mode = "Start" ->
                        IF chr.some THEN StartFeed(at, chr.v) ELSE Plan(TokStart, <<>>)
                    [] st.mode = "LineComment" -> TokenizerPlanLineComment(st, at, chr)
                    [] st.mode = "String" -> TokenizerPlanString(st, at, chr)
                    [] st.mode = "PotentialIdentifier" ->
                        TokenizerPlanPotentialIdentifier(st, at, chr)
         IN  EmitAll(st, p.st, p.acts, fail)

\* DatumTokenizer::feed: the state is assigned only when the match arm, and
\* so every callback in it, returned Ok.
TokenizerFeed(st, at, chr, fail) ==
    IF st.mode = "String" /\ ~chr.some
    THEN Fails(st, Err("Interrupted", at))
    ELSE LET p == CASE st.mode = "Start" ->
                        IF chr.some THEN StartFeed(at, chr.v) ELSE Plan(TokStart, <<>>)
                    [] st.mode = "LineComment" -> TokenizerPlanLineComment(st, at, chr)
                    [] st.mode = "String" -> TokenizerPlanString(st, at, chr)
                    [] st.mode = "PotentialIdentifier" ->
                        TokenizerPlanPotentialIdentifier(st, at, chr)
         IN  EmitAll(st, p.st, p.acts, fail)

---------------------------------------------------------------------------
(* Tokens.  val is the text of a String, Symbol or SpecialID, the limbs of *)
(* an Integer, the text of a Float, and empty for ListStart and ListEnd.   *)
DatumToken(type, val, at) == [type |-> type, val |-> val, at |-> at]

\* TryFrom<(DatumTokenType, B)> for DatumToken: None is the "bad numeric"
\* error.
TokenTryFrom(type, buf, at) ==
    CASE type = "String" -> Some(DatumToken("String", buf, at))
      [] type = "ID" -> Some(DatumToken("Symbol", buf, at))
      [] type = "SpecialID" -> Some(DatumToken("SpecialID", buf, at))
      [] type = "Numeric" ->
            LET Numeric(int, float) ==
                    IF int.some THEN Some(DatumToken("Integer", int.v, at))
                    ELSE IF float.some THEN Some(DatumToken("Float", float.v, at))
                    ELSE None
            IN  Numeric(ParseI64(buf, 10), ParseF64(buf))
      [] type = "ListStart" -> Some(DatumToken("ListStart", <<>>, at))
      [] type = "ListEnd" -> Some(DatumToken("ListEnd", <<>>, at))

\* DatumToken::token_type
TokenType(token) ==
    IF token.type \in {"Integer", "Float"} THEN "Numeric"
    ELSE IF token.type = "Symbol" THEN "ID"
    ELSE token.type

---------------------------------------------------------------------------
(* DatumPipeTokenizer: the tokenizer with its text buffer.                 *)
PipeTokenizerDefault == [buf |-> <<>>, tk |-> DatumTokenizerDefault]

\* transform_action over the actions of one feed, in order.  acc.buf is the
\* buffer, acc.outs the tokens given to the callback, acc.n the number of
\* actions handled, acc.res the first error (its own, or the callback's).
RECURSIVE TransformActions(_, _, _)
TransformActions(acts, acc, fail) ==
    IF acts = <<>> \/ ~IsOk(acc.res) THEN acc
    ELSE LET Transform(a, tok, n) ==
                 IF a.v.act = "Push"
                 THEN TransformActions(Tail(acts),
                        [acc EXCEPT !.buf = Append(acc.buf, a.v.char), !.n = n], fail)
                 ELSE IF ~tok.some
                 THEN [acc EXCEPT !.buf = <<>>, !.n = n, !.res = Err("BadData", a.at)]
                 ELSE TransformActions(Tail(acts),
                        [acc EXCEPT !.buf = <<>>, !.n = n,
                                    !.outs = Append(acc.outs, Emission(a.at, tok.v)),
                                    !.res = IF Len(acc.outs) + 1 = fail THEN CbErr ELSE Ok],
                        fail)
         IN  Transform(Head(acts),
                       TokenTryFrom(Head(acts).v.type, acc.buf, Head(acts).at),
                       acc.n + 1)

\* DatumPipeTokenizer::feed and eof: every action of the tokenizer goes
\* through transform_action; an error there is what the tokenizer's
\* callback returns, so the tokenizer keeps its state.
PipeTokenizerFeed(st, at, i, fail) ==
    LET Result(acc, core) ==
            [st |-> [buf |-> acc.buf, tk |-> core.st],
             outs |-> acc.outs,
             res |-> IF IsOk(acc.res) THEN core.res ELSE acc.res]
        Core(acc) ==
            Result(acc, TokenizerFeed(st.tk, at, i, IF IsOk(acc.res) THEN 0 ELSE acc.n))
    IN  Core(TransformActions(TokenizerFeed(st.tk, at, i, 0).outs,
                              [buf |-> st.buf, outs |-> <<>>, n |-> 0, res |-> Ok], fail))

---------------------------------------------------------------------------
(* Atoms.  val is the text of a String or Symbol, the limbs of an Integer, *)
(* the text of a Float, <<1>> or <<0>> for a Boolean, empty for Nil.       *)
DatumAtom(kind, val) == [kind |-> kind, val |-> val]
AtomNil == DatumAtom("Nil", <<>>)
AtomBoolean(b) == DatumAtom("Boolean", IF b THEN <<1>> ELSE <<0>>)

\* The SpecialID arm of DatumAtom::try_from.
AtomFromSpecialID(b, at) ==
    IF EqIgnoreAsciiCase(b, <<116>>) THEN [atom |-> AtomBoolean(TRUE), res |-> Ok]
    ELSE IF EqIgnoreAsciiCase(b, <<102>>) THEN [atom |-> AtomBoolean(FALSE), res |-> Ok]
    ELSE IF EqIgnoreAsciiCase(b, <<110, 105, 108>>) THEN [atom |-> AtomNil, res |-> Ok]
    ELSE IF b = <<123, 125, CH_HASH>> THEN [atom |-> DatumAtom("Symbol", <<>>), res |-> Ok]
    ELSE IF EqIgnoreAsciiCase(b, <<105, CH_PLUS, 110, 97, 110, CH_DOT, CH_0>>)
         THEN [atom |-> DatumAtom("Float", FloatNaN), res |-> Ok]
    ELSE IF EqIgnoreAsciiCase(b, <<105, CH_PLUS, 105, 110, 102, CH_DOT, CH_0>>)
         THEN [atom |-> DatumAtom("Float", FloatInf), res |-> Ok]
    ELSE IF EqIgnoreAsciiCase(b, <<105, CH_MINUS, 105, 110, 102, CH_DOT, CH_0>>)
         THEN [atom |-> DatumAtom("Float", FloatNegInf), res |-> Ok]
    ELSE IF b # <<>> /\ Head(b) \in {120, 88}
         THEN LET Hex(int) ==
                      IF int.some THEN [atom |-> DatumAtom("Integer", int.v), res |-> Ok]
                      ELSE [atom |-> AtomNil, res |-> Err("BadData", at)]
              IN  Hex(ParseI64(Tail(b), 16))
    ELSE [atom |-> AtomNil, res |-> Err("BadData", at)]

\* DatumAtom::try_from(token)
AtomTryFrom(token) ==
    CASE token.type = "String" -> [atom |-> DatumAtom("String", token.val), res |-> Ok]
      [] token.type = "Symbol" -> [atom |-> DatumAtom("Symbol", token.val), res |-> Ok]
      [] token.type = "SpecialID" -> AtomFromSpecialID(token.val, token.at)
      [] token.type = "Integer" -> [atom |-> DatumAtom("Integer", token.val), res |-> Ok]
      [] token.type = "Float" -> [atom |-> DatumAtom("Float", token.val), res |-> Ok]
      [] OTHER -> [atom |-> AtomNil, res |-> Err("BadData", token.at)]

---------------------------------------------------------------------------
(* Values and the parser.                                                  *)
ValueAtom(a) == [t |-> "Atom", a |-> a, l |-> <<>>]
ValueList(l) == [t |-> "List", a |-> AtomNil, l |-> l]

DatumParserDefault == [start |-> 0, stack |-> <<>>]

Pop(stack) == SubSeq(stack, 1, Len(stack) - 1)
Top(stack) == stack[Len(stack)]

\* A value put in front of the children of the top list.
ParserFeedValuePrepends(st, v, fail) ==
    IF st.stack = <<>>
    THEN [st |-> st, outs |-> <<Emission(st.start, v)>>,
          res |-> IF fail = 1 THEN CbErr ELSE Ok]
    ELSE [st |-> [st EXCEPT !.stack = Append(Pop(st.stack), <<v>> \o Top(st.stack))],
          outs |-> <<>>, res |-> Ok]

\* A value at the top level handed to the callback twice.
ParserFeedValueTwice(st, v, fail) ==
    IF st.stack = <<>>
    THEN [st |-> st, outs |-> <<Emission(st.start, v), Emission(st.start, v)>>,
          res |-> IF fail \in {1, 2} THEN CbErr ELSE Ok]
    ELSE [st |-> [st EXCEPT !.stack = Append(Pop(st.stack), Append(Top(st.stack), v))],
          outs |-> <<>>, res |-> Ok]

\* DatumParser::feed_value, from the state st: with no open list the value
\* goes to the callback at the recorded start, else onto the top list.
ParserFeedValue(st, v, fail) ==
    IF st.stack = <<>>
    THEN [st |-> st, outs |-> <<Emission(st.start, v)>>,
          res |-> IF fail = 1 THEN CbErr ELSE Ok]
    ELSE [st |-> [st EXCEPT !.stack = Append(Pop(st.stack), Append(Top(st.stack), v))],
          outs |-> <<>>, res |-> Ok]

\* An end of input inside a list that gives the open lists up, as the
\* decoder gives up an escape.
ParserEofResets(st, at) ==
    IF st.stack # <<>> THEN Fails(DatumParserDefault, Err("Interrupted", at))
    ELSE [st |-> st, outs |-> <<>>, res |-> Ok]

\* An end of input inside a list reported with the kind Custom.
ParserEofCustom(st, at) ==
    IF st.stack # <<>> THEN Fails(st, Err("Custom", at))
    ELSE [st |-> st, outs |-> <<>>, res |-> Ok]

\* An end of input that is never an error.
ParserEofAlwaysOk(st, at) == [st |-> st, outs |-> <<>>, res |-> Ok]

\* An end of input that takes an open list for bad data.
ParserEofBadData(st, at) ==
    IF st.stack # <<>> THEN Fails(st, Err("BadData", at))
    ELSE [st |-> st, outs |-> <<>>, res |-> Ok]

\* The None arm of DatumParser::feed: a list still open is an interruption.
ParserEof(st, at) ==
    IF st.stack # <<>> THEN Fails(st, Err("Interrupted", at))
    ELSE [st |-> st, outs |-> <<>>, res |-> Ok]

\* The start moved to every token fed.
ParserStartAlways(st, at) == [st EXCEPT !.start = at]

\* `if self.stack.is_empty() { self.start = at; }`: the outermost value
\* started here.
ParserStart(st, at) == IF st.stack = <<>> THEN [st EXCEPT !.start = at] ELSE st

\* A list end with no open list taken for nothing.
ParserListEndIgnored(s1, at, fail) ==
    IF s1.stack = <<>> THEN [st |-> s1, outs |-> <<>>, res |-> Ok]
    ELSE ParserFeedValue([s1 EXCEPT !.stack = Pop(s1.stack)], ValueList(Top(s1.stack)), fail)

\* The ListEnd arm of DatumParser::feed.
ParserListEnd(s1, at, fail) ==
    IF s1.stack = <<>> THEN Fails(s1, Err("BadData", at))
    ELSE ParserFeedValue([s1 EXCEPT !.stack = Pop(s1.stack)], ValueList(Top(s1.stack)), fail)

\* DatumParser::feed
ParserFeed(st, at, token, fail) ==
    IF ~token.some THEN ParserEof(st, at)
    ELSE LET s1 == ParserStart(st, at)
         IN  CASE TokenType(token.v) = "ListStart" ->
                    [st |-> [s1 EXCEPT !.stack = Append(s1.stack, <<>>)],
                     outs |-> <<>>, res |-> Ok]
               [] TokenType(token.v) = "ListEnd" -> ParserListEnd(s1, at, fail)
               [] OTHER ->
                    LET Atom(c) ==
                            IF ~IsOk(c.res) THEN Fails(s1, c.res)
                            ELSE ParserFeedValue(s1, ValueAtom(c.atom), fail)
                    IN  Atom(AtomTryFrom(token.v))

---------------------------------------------------------------------------
(* DatumUTF8Decoder: bytes to characters.  The state is the bytes          *)
(* buffer[0..buffer_len].                                                  *)
UTF8_DECODE_BUFFER == 4

DatumUTF8DecoderDefault == [buffer |-> <<>>]

IsContinuation(byte) == byte >= 128 /\ byte <= 191

\* The length of the encoding a first byte announces, 0 for a byte that
\* begins no encoding.
Utf8Width(first) ==
    IF first <= 127 THEN 1
    ELSE IF first >= 194 /\ first <= 223 THEN 2
    ELSE IF first >= 224 /\ first <= 239 THEN 3
    ELSE IF first >= 240 /\ first <= 244 THEN 4
    ELSE 0

\* The payload bits of the bytes b[k..], after the value acc.
RECURSIVE Utf8Bits(_, _, _)
Utf8Bits(b, k, acc) ==
    IF k > Len(b) THEN acc ELSE Utf8Bits(b, k + 1, (acc * 64) + (b[k] - 128))

\* core::str::from_utf8 on bytes that begin with a byte above 127, then
\* chars().next(): Some(the character) when the bytes are exactly one
\* well-formed encoding, None for an Err.
FromUtf8(b) ==
    LET w == Utf8Width(b[1])
        v == Utf8Bits(b, 2, IF w = 2 THEN b[1] - 192 ELSE IF w = 3 THEN b[1] - 224 ELSE b[1] - 240)
    IN  IF /\ w = Len(b)
           /\ w >= 2
           /\ \A k \in 2..Len(b) : IsContinuation(b[k])
           /\ (w = 3 => v >= 2048 /\ ~(v >= 55296 /\ v <= 57343))
           /\ (w = 4 => v >= 65536 /\ v <= CH_MAX)
        THEN Some(v)
        ELSE None

\* An end of input that is never an error.
UTF8DecoderEofAlwaysOk(st, at) == [st |-> st, outs |-> <<>>, res |-> Ok]

\* The None arm of DatumUTF8Decoder::feed.
UTF8DecoderEof(st, at) ==
    IF Len(st.buffer) # 0 THEN Fails(st, Err("Interrupted", at))
    ELSE [st |-> st, outs |-> <<>>, res |-> Ok]

\* A continuation byte after which an emitted character stays in the buffer.
UTF8DecoderContinueKeepsBuffer(st, at, byte, fail) ==
    LET Checked(buffer, char) ==
            [st |-> [buffer |-> buffer],
             outs |-> IF char.some THEN <<Emission(at, char.v)>> ELSE <<>>,
             res |-> IF char.some /\ fail = 1 THEN CbErr ELSE Ok]
    IN  Checked(Append(st.buffer, byte), FromUtf8(Append(st.buffer, byte)))

\* The arm that adds a continuation byte: the buffer is checked, and a
\* character it encodes is emitted after the buffer was emptied.  The
\* result kind Panic is the panic of the write `self.buffer[buffer_len]`
\* past the end of the array, and of unreachable!() for a valid but empty
\* string.
UTF8DecoderContinue(st, at, byte, fail) ==
    LET Checked(buffer, char) ==
            IF char.some
            THEN [st |-> [buffer |-> <<>>], outs |-> <<Emission(at, char.v)>>,
                  res |-> IF fail = 1 THEN CbErr ELSE Ok]
            ELSE [st |-> [buffer |-> buffer], outs |-> <<>>, res |-> Ok]
    IN  IF Len(st.buffer) >= UTF8_DECODE_BUFFER THEN Fails(st, Err("Panic", at))
        ELSE IF Append(st.buffer, byte) = <<>> THEN Fails(st, Err("Panic", at))
        ELSE Checked(Append(st.buffer, byte), FromUtf8(Append(st.buffer, byte)))

\* A feed without the check for a full buffer.
UTF8DecoderFeedByteUnguarded(st, at, byte, fail) ==
    IF Len(st.buffer) = 0
    THEN IF byte <= 127
         THEN [st |-> st, outs |-> <<Emission(at, byte)>>,
               res |-> IF fail = 1 THEN CbErr ELSE Ok]
         ELSE IF IsContinuation(byte) THEN Fails(st, Err("BadData", at))
         ELSE [st |-> [buffer |-> <<byte>>], outs |-> <<>>, res |-> Ok]
    ELSE IF ~IsContinuation(byte) THEN Fails(st, Err("BadData", at))
    ELSE UTF8DecoderContinue(st, at, byte, fail)

\* A feed that reports a byte that cannot continue the sequence as an
\* interruption.
UTF8DecoderFeedByteInterrupts(st, at, byte, fail) ==
    IF Len(st.buffer) >= UTF8_DECODE_BUFFER THEN Fails(st, Err("BadData", at))
    ELSE IF Len(st.buffer) = 0
    THEN IF byte <= 127
         THEN [st |-> st, outs |-> <<Emission(at, byte)>>,
               res |-> IF fail = 1 THEN CbErr ELSE Ok]
         ELSE IF IsContinuation(byte) THEN Fails(st, Err("BadData", at))
         ELSE [st |-> [buffer |-> <<byte>>], outs |-> <<>>, res |-> Ok]
    ELSE IF ~IsContinuation(byte) THEN Fails(st, Err("Interrupted", at))
    ELSE UTF8DecoderContinue(st, at, byte, fail)

\* DatumUTF8Decoder::feed for a byte.
UTF8DecoderFeedByte(st, at, byte, fail) ==
    IF Len(st.buffer) >= UTF8_DECODE_BUFFER THEN Fails(st, Err("BadData", at))
    ELSE IF Len(st.buffer) = 0
    THEN IF byte <= 127
         THEN [st |-> st, outs |-> <<Emission(at, byte)>>,
               res |-> IF fail = 1 THEN CbErr ELSE Ok]
         ELSE IF IsContinuation(byte) THEN Fails(st, Err("BadData", at))
         ELSE [st |-> [buffer |-> <<byte>>], outs |-> <<>>, res |-> Ok]
    ELSE IF ~IsContinuation(byte) THEN Fails(st, Err("BadData", at))
    ELSE UTF8DecoderContinue(st, at, byte, fail)

\* DatumUTF8Decoder::feed
UTF8DecoderFeed(st, at, i, fail) ==
    IF ~i.some THEN UTF8DecoderEof(st, at) ELSE UTF8DecoderFeedByte(st, at, i.v, fail)

---------------------------------------------------------------------------
(* DatumLineNumberTracker.  Its state is the Cell<u32> it refers to, a u32 *)
(* kept as its two 16-bit halves.                                          *)
\* u32::saturating_add(1)
SaturatingAdd1(v) ==
    IF v.lo < 65535 THEN U32(v.hi, v.lo + 1)
    ELSE IF v.hi < 65535 THEN U32(v.hi + 1, 0)
    ELSE v

\* A tracker that leaves a newline uncounted when the callback fails.
LineNumberTrackerFeedCountsOk(st, at, i, fail) ==
    IF ~i.some THEN [st |-> st, outs |-> <<>>, res |-> Ok, seen |-> None]
    ELSE [st |-> [cell |-> IF i.v = CH_LF /\ fail # 1 THEN SaturatingAdd1(st.cell) ELSE st.cell],
          outs |-> <<Emission(at, i.v)>>,
          res |-> IF fail = 1 THEN CbErr ELSE Ok,
          seen |-> Some(st.cell)]

\* DatumLineNumberTracker::feed; seen is the cell as the callback found it.
LineNumberTrackerFeed(st, at, i, fail) ==
    IF ~i.some THEN [st |-> st, outs |-> <<>>, res |-> Ok, seen |-> None]
    ELSE [st |-> [cell |-> IF i.v = CH_LF THEN SaturatingAdd1(st.cell) ELSE st.cell],
          outs |-> <<Emission(at, i.v)>>,
          res |-> IF fail = 1 THEN CbErr ELSE Ok,
          seen |-> Some(st.cell)]

---------------------------------------------------------------------------
(* Composition.  The state of DatumComposePipe(A, B) is [a, b].            *)
ComposeState(a, b) == [a |-> a, b |-> b]

RECURSIVE StageFeed(_, _, _, _, _)

\* An error that is never passed on.
NeverRaised(r) == FALSE

\* `?`: a call that returned an error ends the caller with that error.
Raised(r) == ~IsOk(r)

\* End of input passed on to B whatever A returned.
ForwardsEofAlways(aRes, i) == ~i.some

\* `m0.feed(..)?; if was_none { m1.feed(at, None, f) }`: B is fed the end of
\* input when A returned Ok for it.
ForwardsEof(aRes, i) == ~Raised(aRes) /\ ~i.some

\* The callback DatumComposePipe gives A, `|o, v| m1.feed(o, Some(v), f)`,
\* run over the emissions A makes when no callback fails, until one of B's
\* feeds returns an error.  acc.b is B's state, acc.outs what B emitted to
\* the caller, acc.fedB the inputs B was fed, acc.bRes and acc.bOuts what
\* each of B's feeds returned and emitted, acc.n the number of A's
\* emissions handled, acc.res the first error.
RECURSIVE FeedAll(_, _, _, _)
FeedAll(B, aOuts, acc, fail) ==
    IF aOuts = <<>> \/ Raised(acc.res) THEN acc
    ELSE LET Fed(e, r) ==
                 FeedAll(B, Tail(aOuts),
                         [b |-> r.st, outs |-> acc.outs \o r.outs,
                          fedB |-> Append(acc.fedB, Emission(e.at, Some(e.v))),
                          bRes |-> Append(acc.bRes, r.res),
                          bOuts |-> Append(acc.bOuts, r.outs),
                          n |-> acc.n + 1, res |-> r.res],
                         fail)
             Callback(e) == Fed(e, StageFeed(B, acc.b, e.at, Some(e.v), fail - Len(acc.outs)))
         IN  Callback(Head(aOuts))

\* DatumComposePipe::feed, with the log of the call: fedB, bRes and bOuts,
\* the inputs B was fed and what it returned and emitted for each, and
\* aOuts and aRes, what A emitted and returned.
ComposeFeedLog(A, B, st, at, i, fail) ==
    LET Result(acc, ra, aRes, eof) ==
            IF ForwardsEof(aRes, i)
            THEN [st |-> ComposeState(ra.st, eof.st), outs |-> acc.outs \o eof.outs,
                  res |-> eof.res, fedB |-> Append(acc.fedB, Emission(at, None)),
                  bRes |-> Append(acc.bRes, eof.res),
                  bOuts |-> Append(acc.bOuts, eof.outs),
                  aOuts |-> ra.outs, aRes |-> aRes]
            ELSE [st |-> ComposeState(ra.st, acc.b), outs |-> acc.outs,
                  res |-> aRes, fedB |-> acc.fedB,
                  bRes |-> acc.bRes, bOuts |-> acc.bOuts,
                  aOuts |-> ra.outs, aRes |-> aRes]
        Returned(acc, ra) ==
            Result(acc, ra, IF Raised(acc.res) THEN acc.res ELSE ra.res,
                   StageFeed(B, acc.b, at, None, fail - Len(acc.outs)))
        Fed(acc) ==
            Returned(acc, StageFeed(A, st.a, at, i, IF Raised(acc.res) THEN acc.n ELSE 0))
    IN  Fed(FeedAll(B, StageFeed(A, st.a, at, i, 0).outs,
                    [b |-> st.b, outs |-> <<>>, fedB |-> <<>>, bRes |-> <<>>,
                     bOuts |-> <<>>, n |-> 0, res |-> Ok],
                    fail))

ComposeFeed(A, B, st, at, i, fail) ==
    LET Plain(r) == [st |-> r.st, outs |-> r.outs, res |-> r.res]
    IN  Plain(ComposeFeedLog(A, B, st, at, i, fail))

---------------------------------------------------------------------------
(* The pipelines of pipelines.rs.                                          *)
CharToTokenDefault == ComposeState(DatumDecoderDefault, PipeTokenizerDefault)
CharToTokenFeed(st, at, i, fail) ==
    ComposeFeed("DatumDecoder", "DatumPipeTokenizer", st, at, i, fail)

CharToValueDefault == ComposeState(CharToTokenDefault, DatumParserDefault)
CharToValueFeedLog(st, at, i, fail) ==
    ComposeFeedLog("DatumCharToTokenPipeline", "DatumParser", st, at, i, fail)
CharToValueFeed(st, at, i, fail) ==
    ComposeFeed("DatumCharToTokenPipeline", "DatumParser", st, at, i, fail)

ByteToTokenDefault == ComposeState(DatumUTF8DecoderDefault, CharToTokenDefault)
ByteToTokenFeed(st, at, i, fail) ==
    ComposeFeed("DatumUTF8Decoder", "DatumCharToTokenPipeline", st, at, i, fail)

ByteToValueDefault == ComposeState(ByteToTokenDefault, DatumParserDefault)
ByteToValueFeed(st, at, i, fail) ==
    ComposeFeed("DatumByteToTokenPipeline", "DatumParser", st, at, i, fail)

\* A::feed and B::feed of DatumComposePipe<A, B>: the feed of the stage the
\* type parameter names.
StageFeed(stage, st, at, i, fail) ==
    CASE stage = "DatumDecoder" -> DecoderFeed(st, at, i, fail)
      [] stage = "DatumPipeTokenizer" -> PipeTokenizerFeed(st, at, i, fail)
      [] stage = "DatumParser" -> ParserFeed(st, at, i, fail)
      [] stage = "DatumCharToTokenPipeline" -> CharToTokenFeed(st, at, i, fail)
      [] stage = "DatumUTF8Decoder" -> UTF8DecoderFeed(st, at, i, fail)
      [] stage = "DatumByteToTokenPipeline" -> ByteToTokenFeed(st, at, i, fail)
      [] stage = "DatumCharToValuePipeline" -> CharToValueFeed(st, at, i, fail)
      [] stage = "DatumLineNumberTracker" -> LineNumberTrackerFeed(st, at, i, fail)

---------------------------------------------------------------------------
(* Writer.                                                                 *)
RECURSIVE Concat(_)
Concat(ss) == IF ss = <<>> THEN <<>> ELSE Head(ss) \o Concat(Tail(ss))

\* One character of a string's payload, as the String arm writes it.
WriteStringChar(v) ==
    IF v = CH_BACKSLASH THEN <<CH_BACKSLASH, CH_BACKSLASH>>
    ELSE IF v = CH_CR THEN <<CH_BACKSLASH, 114>>
    ELSE IF v = CH_LF THEN <<CH_BACKSLASH, 110>>
    ELSE IF v = CH_TAB THEN <<CH_BACKSLASH, 116>>
    ELSE IF (v >= 0 /\ v <= CH_US) \/ v = CH_DEL THEN MakeByteHexEscape(v)
    ELSE <<v>>

WriteString(b) ==
    <<CH_QUOTE>> \o Concat([k \in 1..Len(b) |-> WriteStringChar(b[k])]) \o <<CH_QUOTE>>

WritePotentialIdentifiers(b) ==
    Concat([k \in 1..Len(b) |-> Emit(DatumCharPotentialIdentifier(b[k]))])

\* A symbol written as its characters, none of them forced to content.
WriteSymbolPlain(b) == WritePotentialIdentifiers(b)

\* The ID arm: the empty symbol, a lone sign, a leading sign and its
\* follower forced to content, any other first character as content.
WriteSymbol(b) ==
    IF b = <<>> THEN <<CH_HASH, 123, 125, CH_HASH>>
    ELSE IF Identify(b[1]) = "Sign"
    THEN IF Len(b) >= 2
         THEN Emit(DatumCharContent(b[1])) \o Emit(DatumCharContent(b[2]))
              \o WritePotentialIdentifiers(Drop(b, 2))
         ELSE <<b[1]>>
    ELSE Emit(DatumCharContent(b[1])) \o WritePotentialIdentifiers(Drop(b, 1))

WriteSpecialID(b) == <<CH_HASH>> \o WritePotentialIdentifiers(b)

\* An observer that takes every text for a float's.
FloatObservedAlways(s) == TRUE

\* DatumFloatObserver: whether the formatted text shows it is a float.
FloatObserved(s) == \E k \in 1..Len(s) : s[k] \in {CH_DOT, 101, 69}

\* The Float arm: the special spellings, else the formatted digits and,
\* when nothing in them marks a float, ".0".
WriteFloat(v) ==
    IF v = FloatNaN THEN <<CH_HASH, 105, CH_PLUS, 110, 97, 110, CH_DOT, CH_0>>
    ELSE IF v = FloatInf THEN <<CH_HASH, 105, CH_PLUS, 105, 110, 102, CH_DOT, CH_0>>
    ELSE IF v = FloatNegInf THEN <<CH_HASH, 105, CH_MINUS, 105, 110, 102, CH_DOT, CH_0>>
    ELSE IF FloatObserved(v) THEN v
    ELSE v \o <<CH_DOT, CH_0>>

\* DatumToken::write
WriteToken(token) ==
    CASE token.type = "String" -> WriteString(token.val)
      [] token.type = "Symbol" -> WriteSymbol(token.val)
      [] token.type = "SpecialID" -> WriteSpecialID(token.val)
      [] token.type = "Integer" -> FormatI64(token.val)
      [] token.type = "Float" -> WriteFloat(token.val)
      [] token.type = "ListStart" -> <<CH_LPAREN>>
      [] token.type = "ListEnd" -> <<CH_RPAREN>>

\* DatumAtom::write
WriteAtom(atom) ==
    CASE atom.kind \in {"String", "Symbol", "Integer", "Float"} ->
            WriteToken(DatumToken(atom.kind, atom.val, 0))
      [] atom.kind = "Boolean" ->
            IF atom.val = <<1>> THEN <<CH_HASH, 116>> ELSE <<CH_HASH, 102>>
      [] atom.kind = "Nil" -> <<CH_HASH, 110, 105, 108>>

\* DatumWriter: what separates one written token from the next.  A space
\* follows an atom or a list end unless a list end comes next.
DatumWriterDefault == "None"
WriterQueued(w, listEnd) == IF w = "AfterToken" /\ ~listEnd THEN <<CH_SPACE>> ELSE <<>>
WriterWriteToken(w, token) ==
    [text |-> WriterQueued(w, token.type = "ListEnd") \o WriteToken(token),
     w |-> IF token.type = "ListStart" THEN "None" ELSE "AfterToken"]
WriterWriteAtom(w, atom) ==
    [text |-> WriterQueued(w, FALSE) \o WriteAtom(atom), w |-> "AfterToken"]

\* DatumValue::write_to
RECURSIVE WriteTo(_, _)
RECURSIVE WriteElements(_, _)
WriteElements(l, w) ==
    IF l = <<>> THEN [text |-> <<>>, w |-> w]
    ELSE LET h == WriteTo(Head(l), w)
             t == WriteElements(Tail(l), h.w)
         IN  [text |-> h.text \o t.text, w |-> t.w]
WriteTo(v, w) ==
    IF v.t = "Atom" THEN WriterWriteAtom(w, v.a)
    ELSE LET ls == WriterWriteToken(w, DatumToken("ListStart", <<>>, 0))
             es == WriteElements(v.l, ls.w)
             le == WriterWriteToken(es.w, DatumToken("ListEnd", <<>>, 0))
         IN  [text |-> ls.text \o es.text \o le.text, w |-> le.w]

---------------------------------------------------------------------------
(* The caller.  It drives one stage or pipeline, feeding every input with  *)
(* its index as the offset, and stops at the first error.                  *)
Decoder == [kind |-> "Decoder", st |-> DatumDecoderDefault]
CharToToken == [kind |-> "CharToToken", st |-> CharToTokenDefault]
CharToValue == [kind |-> "CharToValue", st |-> CharToValueDefault]
ByteToValue == [kind |-> "ByteToValue", st |-> ByteToValueDefault]

\* The feed of the driven pipe; for char -> value, the composition of
\* char -> token (A) and the parser (B), with the log of the call.
PipeFeed(p, at, i, fail) ==
    CASE p.kind = "Decoder" -> DecoderFeed(p.st, at, i, fail)
      [] p.kind = "CharToToken" -> CharToTokenFeed(p.st, at, i, fail)
      [] p.kind = "CharToValue" -> CharToValueFeedLog(p.st, at, i, fail)
      [] p.kind = "ByteToValue" -> ByteToValueFeed(p.st, at, i, fail)

NoSrc == [kind |-> "NoSrc"]
NoCall == [made |-> FALSE]

\* The log of one feed call r of the char -> value pipeline.
CallLog(p, at, i, fail, r) ==
    IF p.kind # "CharToValue" THEN NoCall
    ELSE [made |-> TRUE, pre |-> p.st, at |-> at, i |-> i,
          failed |-> IF r.res = CbErr THEN fail ELSE 0,
          aOuts |-> r.aOuts, aRes |-> r.aRes, fedB |-> r.fedB,
          bRes |-> r.bRes, bOuts |-> r.bOuts, outs |-> r.outs, res |-> r.res]

\* One feed call.
Step(i, fail) ==
    \E r \in {PipeFeed(pipe, Len(fed), i, fail)} :
        /\ pipe' = [pipe EXCEPT !.st = r.st]
        /\ fed' = Append(fed, i)
        /\ out' = out \o r.outs
        /\ res' = r.res
        /\ call' = CallLog(pipe, Len(fed), i, fail, r)
        /\ pc' = IF ~IsOk(r.res) THEN "error" ELSE IF i.some THEN "run" ELSE "done"

InitWith(p, v, t) ==
    /\ pipe = p
    /\ src = v
    /\ text = t
    /\ fed = <<>>
    /\ out = <<>>
    /\ res = Ok
    /\ pc = "run"
    /\ call = NoCall

\* The reader of a written text: its characters in order, then the end of
\* input, with a callback that accepts everything.
FeedText ==
    /\ pc = "run"
    /\ text # <<>>
    /\ Step(Some(Head(text)), 0)
    /\ text' = Tail(text)
    /\ UNCHANGED src

FeedEnd ==
    /\ pc = "run"
    /\ text = <<>>
    /\ Step(None, 0)
    /\ UNCHANGED <<src, text>>

---------------------------------------------------------------------------
(* Classified characters written and decoded again.                        *)
MaxEmitChar == 160

EmitChars == (0..MaxEmitChar) \cup {55295, 57344, CH_MAX}

\* Every DatumChar the three constructors give.
ConstructedChars ==
    {DatumCharIdentify(v).v : v \in {x \in EmitChars : DatumCharIdentify(x).some}}
    \cup {DatumCharContent(v) : v \in EmitChars}
    \cup {DatumCharPotentialIdentifier(v) : v \in EmitChars}

InitEmit == \E c \in ConstructedChars : InitWith(Decoder, c, Emit(c))
NextEmit == FeedText \/ FeedEnd
SpecEmit == InitEmit /\ [][NextEmit]_vars

\* C9: once the characters of c.emit() have been fed to a decoder that was
\* in Normal state, the decoder has emitted exactly one DatumChar, equal to
\* c in character and class, returned no error and is in Normal state.
C9_ClassifiedCharacterIdentity ==
    text = <<>> =>
        /\ pc # "error"
        /\ Len(out) = 1
        /\ out[1].v = src
        /\ pipe.st = DecNormal

\* An escaped content character (here "(" written as a backslash and "(")
\* has been read back.
C9_Witness ==
    /\ text = <<>>
    /\ Len(fed) = 2
    /\ src = DatumCharContent(CH_LPAREN)
    /\ out = <<Emission(0, DatumCharContent(CH_LPAREN))>>

---------------------------------------------------------------------------
(* One hex escape fed to the decoder: a backslash, "x", hex digits, and a  *)
(* character that ends the digits.                                         *)
MaxHexDigits == 9

\* The digits 0, 1, 8 and d; ";" and a character that is no hex digit.
HexDigits == {CH_0, 49, 56, 100}
HexEnders == {CH_SEMI, 103}

FeedHexIntro ==
    /\ pc = "run"
    /\ Len(fed) < 2
    /\ Step(Some(IF fed = <<>> THEN CH_BACKSLASH ELSE 120), 0)
    /\ UNCHANGED <<src, text>>

FeedHexDigit ==
    /\ pc = "run"
    /\ pipe.st.mode = "HexEscape"
    /\ Len(fed) < 2 + MaxHexDigits
    /\ \E c \in HexDigits : Step(Some(c), 0)
    /\ UNCHANGED <<src, text>>

FeedHexEnd ==
    /\ pc = "run"
    /\ pipe.st.mode = "HexEscape"
    /\ \E c \in HexEnders : Step(Some(c), 0)
    /\ UNCHANGED <<src, text>>

InitHex == InitWith(Decoder, NoSrc, <<>>)
NextHex == FeedHexIntro \/ FeedHexDigit \/ FeedHexEnd
SpecHex == InitHex /\ [][NextHex]_vars

\* The number the hex digits fed[from..to] denote, or CH_MAX + 1 when it is
\* above CH_MAX.
RECURSIVE HexDenoted(_, _, _)
HexDenoted(from, to, acc) ==
    IF from > to THEN acc
    ELSE IF acc > CH_MAX THEN CH_MAX + 1
    ELSE HexDenoted(from + 1, to,
                    IF (acc * 16) + ToDigit16(fed[from].v) > CH_MAX THEN CH_MAX + 1
                    ELSE (acc * 16) + ToDigit16(fed[from].v))

\* The last feed ended the digits of the escape that began the input.
HexEnded == pc # "done" /\ Len(fed) >= 3 /\ fed[Len(fed)].v \in HexEnders

\* C10: in HexEscape state ";" emits, as Content, the code point whose value
\* is the number denoted by all the hex digits seen since "\x", however many
\* they are, and returns BadData emitting nothing when that number is no
\* valid code point; a character that is neither a hex digit nor ";"
\* returns BadData.
C10_HexEscapeValue ==
    HexEnded =>
        IF fed[Len(fed)].v = CH_SEMI
           /\ IsScalarValue(HexDenoted(3, Len(fed) - 1, 0))
        THEN /\ res = Ok
             /\ out = <<Emission(0, DatumCharContent(HexDenoted(3, Len(fed) - 1, 0)))>>
        ELSE /\ res.kind = "BadData"
             /\ out = <<>>

---------------------------------------------------------------------------
(* Tokens written and read back through decoder -> tokenizer.              *)
MaxTextLen == 2
MaxIntOffset == 12
MaxFloatDigits == 2

\* All sequences over S of length at most n.
RECURSIVE SeqsUpTo(_, _)
SeqsUpTo(S, n) ==
    IF n = 0 THEN {<<>>}
    ELSE SeqsUpTo(S, n - 1)
         \cup {Append(s, c) : s \in {t \in SeqsUpTo(S, n - 1) : Len(t) = n - 1}, c \in S}

\* The double quote, the backslash, CR, LF, TAB, a control character, DEL,
\* the metacharacters ( ) ; #, a letter, the space, the sign, a digit and
\* the point.
TextChars ==
    {CH_QUOTE, CH_BACKSLASH, CH_CR, CH_LF, CH_TAB, 1, CH_DEL, CH_LPAREN, CH_RPAREN,
     CH_SEMI, CH_HASH, 97, CH_SPACE, CH_MINUS, 49, CH_DOT}

Texts == SeqsUpTo(TextChars, MaxTextLen)

\* The i64 of a small integer.
I64Small(n) == IF n >= 0 THEN <<0, 0, 0, n>> ELSE U64Neg(<<0, 0, 0, -n>>)

\* Integers around zero, at the minimum, at the maximum and across the
\* limbs.
Ints ==
    {I64Small(n) : n \in (-MaxIntOffset)..MaxIntOffset}
    \cup {<<32768, 0, 0, k>> : k \in 0..MaxIntOffset}
    \cup {<<32767, LIMB - 1, LIMB - 1, (LIMB - 1) - k>> : k \in 0..MaxIntOffset}
    \cup {<<k, LIMB - k, k, 0>> : k \in 1..MaxIntOffset}

\* What `{:?}` may print for a finite float: a sign, digits, and a point
\* and digits, an exponent, both or neither.
FloatTexts ==
    {sign \o int \o tail :
        sign \in {<<>>, <<CH_MINUS>>},
        int \in SeqsUpTo({CH_0, 49, 53}, MaxFloatDigits) \ {<<>>},
        tail \in {<<>>, <<CH_DOT, CH_0>>, <<CH_DOT, 53>>, <<101, 55>>,
                  <<101, CH_MINUS, 55>>, <<69, 55>>, <<CH_DOT, 53, 101, 55>>}}

Floats == FloatTexts \cup {FloatNaN, FloatInf, FloatNegInf}

WrittenTokens ==
    {DatumToken("String", s, 0) : s \in Texts}
    \cup {DatumToken("Symbol", s, 0) : s \in Texts}
    \cup {DatumToken("Integer", i, 0) : i \in Ints}
    \cup {DatumToken("Float", f, 0) : f \in Floats}

InitTokens == \E t \in WrittenTokens : InitWith(CharToToken, t, WriteToken(t))
NextTokens == FeedText \/ FeedEnd
SpecTokens == InitTokens /\ [][NextTokens]_vars

\* The read ended with exactly one token, of the type and value written.
ReadBack == Len(out) = 1 /\ out[1].v.type = src.type /\ out[1].v.val = src.val

\* C2: the text written for String(s), with s over characters that include
\* the double quote, the backslash, CR, LF, TAB, controls, DEL and ( ) ; #,
\* read through decoder -> tokenizer and the end of input, gives no error
\* and exactly one token, String(s).
C2_StringRoundTrip ==
    src.type = "String" => pc # "error" /\ (pc = "done" => ReadBack)

\* C3: the text written for Symbol(s), read through decoder -> tokenizer ->
\* atom conversion and the end of input, gives no error and exactly one
\* atom, Symbol(s).
C3_SymbolRoundTrip ==
    src.type = "Symbol" =>
        /\ pc # "error"
        /\ pc = "done" =>
               /\ Len(out) = 1
               /\ AtomTryFrom(out[1].v) = [atom |-> DatumAtom("Symbol", src.val), res |-> Ok]

\* A symbol of a sign and a digit has been read back as a symbol.
C3_Witness ==
    /\ pc = "done"
    /\ src = DatumToken("Symbol", <<CH_MINUS, 49>>, 0)
    /\ Len(out) = 1
    /\ out[1].v.type = "Symbol"

\* C4: the decimal text written for Integer(i), tokenized with the end of
\* input, gives exactly one token, Integer(i).
C4_IntegerFidelity ==
    src.type = "Integer" => pc # "error" /\ (pc = "done" => ReadBack)

\* The minimum i64 has been read back.
C4_Witness ==
    /\ pc = "done"
    /\ src = DatumToken("Integer", <<32768, 0, 0, 0>>, 0)
    /\ out = <<Emission(0, src)>>

FiniteFloat == src.type = "Float" /\ src.val \notin {FloatNaN, FloatInf, FloatNegInf}
HasFloatMark(s) == \E k \in 1..Len(s) : s[k] \in {CH_DOT, 101, 69}

\* C5: for a finite float the written text holds one of "." "e" "E": it is
\* the formatted digits, followed by ".0" exactly when they hold none of
\* the three; and reading the text never gives an Integer token.
C5_FloatNeverInteger ==
    FiniteFloat =>
        /\ HasFloatMark(WriteToken(src))
        /\ WriteToken(src) =
               IF HasFloatMark(src.val) THEN src.val ELSE src.val \o <<CH_DOT, CH_0>>
        /\ \A k \in 1..Len(out) : out[k].v.type # "Integer"
        /\ pc = "done" => Len(out) = 1 /\ out[1].v.type = "Float"

\* A float formatted as "-1" has been written as "-1.0" and read as a
\* float.
C5_Witness ==
    /\ pc = "done"
    /\ src = DatumToken("Float", <<CH_MINUS, 49>>, 0)
    /\ Len(fed) = 5
    /\ out[1].v.type = "Float"

---------------------------------------------------------------------------
(* Trees written and read back through decoder -> tokenizer -> parser.     *)
MaxDepth == 2
MaxListLen == 2

TreeAtoms ==
    {DatumAtom("String", <<97>>), DatumAtom("String", <<CH_QUOTE>>),
     DatumAtom("Symbol", <<97>>), DatumAtom("Integer", I64Small(-1)),
     AtomBoolean(TRUE), AtomNil}

\* The trees of depth at most d, their lists of at most MaxListLen elements.
RECURSIVE Trees(_)
Trees(d) ==
    IF d = 0 THEN {ValueAtom(a) : a \in TreeAtoms}
    ELSE Trees(d - 1) \cup {ValueList(l) : l \in SeqsUpTo(Trees(d - 1), MaxListLen)}

InitTree ==
    \E t \in Trees(MaxDepth) : InitWith(CharToValue, t, WriteTo(t, DatumWriterDefault).text)
NextTree == FeedText \/ FeedEnd
SpecTree == InitTree /\ [][NextTree]_vars

\* C1: the text written for a tree T of String, Symbol, Integer, Boolean
\* and Nil atoms and nested lists, read through decoder -> tokenizer ->
\* parser and the end of input, gives no error and exactly one value, equal
\* to T.
C1_TreeRoundTrip ==
    /\ pc # "error"
    /\ pc = "done" => Len(out) = 1 /\ out[1].v = src

---------------------------------------------------------------------------
(* Any input fed to decoder -> tokenizer -> parser, one character a call,  *)
(* by a caller whose callback may return an error.                         *)
MaxInput == 4

\* ( ) " a # backslash space 1 ; - newline and DEL, a character the format
\* forbids.
InputChars ==
    {CH_LPAREN, CH_RPAREN, CH_QUOTE, 97, CH_HASH, CH_BACKSLASH, CH_SPACE, 49,
     CH_SEMI, CH_MINUS, CH_LF, CH_DEL}

FeedChar ==
    /\ pc = "run"
    /\ Len(fed) < MaxInput
    /\ \E c \in InputChars, fail \in {0, 1} : Step(Some(c), fail)
    /\ UNCHANGED <<src, text>>

FeedEof ==
    /\ pc = "run"
    /\ \E fail \in {0, 1} : Step(None, fail)
    /\ UNCHANGED <<src, text>>

Init == InitWith(CharToValue, NoSrc, <<>>)
Next == FeedChar \/ FeedEof
Spec == Init /\ [][Next]_vars

\* The last call fed the end of input.
EofFed == call.made /\ ~call.i.some

\* Fed to the pipeline in state st, the character c is the last closing
\* token of a valid document: it closes a list or a string, and the end of
\* input after it is accepted.
ClosesDocument(st, c) ==
    LET Closed(r) ==
            /\ IsOk(r.res)
            /\ \E k \in 1..Len(r.aOuts) : r.aOuts[k].v.type \in {"ListEnd", "String"}
            /\ IsOk(CharToValueFeed(r.st, 0, None, 0).res)
    IN  Closed(CharToValueFeedLog(st, 0, Some(c), 0))

\* The token the parser was fed last in the call.
LastToken == call.fedB[Len(call.fedB)].v.v

\* The parser was fed a token in the last call, and nothing after it.
TokenFedLast == call.made /\ call.fedB # <<>> /\ call.fedB[Len(call.fedB)].v.some

\* The text of a special atom that is none of #t #f #nil #{}# #x.. #i..
UnknownSpecial(b) ==
    b = <<>> \/ Head(b) \notin {116, 84, 102, 70, 110, 78, 123, 120, 88, 105, 73}

\* C6: a valid document cut right before its last closing token (the ")"
\* that ends a list, the quote that ends a string), then the end of input,
\* ends with Interrupted and never BadData; a ")" with no list open and an
\* unknown special atom end with BadData.
C6_TruncationInterrupted ==
    /\ (EofFed /\ \E c \in {CH_RPAREN, CH_QUOTE} : ClosesDocument(call.pre, c))
           => res.kind = "Interrupted"
    /\ (TokenFedLast /\ LastToken.type = "ListEnd" /\ call.pre.b.stack = <<>>)
           => res.kind = "BadData"
    /\ (TokenFedLast /\ LastToken.type = "SpecialID" /\ UnknownSpecial(LastToken.val))
           => res.kind = "BadData"

\* "(a" and then the end of input: the document "(a)" without its ")".
C6_Witness ==
    /\ EofFed
    /\ Len(fed) = 3
    /\ fed[1].v = CH_LPAREN
    /\ fed[2].v = 97
    /\ ClosesDocument(call.pre, CH_RPAREN)
    /\ res = Err("Interrupted", 2)


\* What B was fed in the last call before any end of input.
FedBeforeEof ==
    IF call.fedB # <<>> /\ ~call.fedB[Len(call.fedB)].v.some
    THEN SubSeq(call.fedB, 1, Len(call.fedB) - 1)
    ELSE call.fedB

\* C7: in one feed call of the composition, B is fed every output A emits,
\* in the order of emission and with the offset A gave; for the end of
\* input B is fed the end of input exactly once, after all of A's outputs,
\* and only if A's own feed returned success; for any other input B is
\* never fed the end of input.
C7_CompositionOrdering ==
    call.made =>
        /\ FedBeforeEof =
               [k \in 1..Len(call.aOuts) |->
                   Emission(call.aOuts[k].at, Some(call.aOuts[k].v))]
        /\ \A k \in 1..Len(FedBeforeEof) : FedBeforeEof[k].v.some
        /\ (Len(call.fedB) > Len(FedBeforeEof)) <=> (~call.i.some /\ IsOk(call.aRes))

\* At the end of input A (char -> token) emitted a token; B (the parser)
\* was fed it and then the end of input.
C7_Witness ==
    /\ EofFed
    /\ Len(call.aOuts) = 1
    /\ Len(call.fedB) = 2
    /\ call.fedB[1].v.some
    /\ ~call.fedB[2].v.some

\* The index of B's first feed of the last call that returned an error, or
\* 0 when none did.
FirstError ==
    IF \E k \in 1..Len(call.bRes) : ~IsOk(call.bRes[k])
    THEN CHOOSE k \in 1..Len(call.bRes) :
             /\ ~IsOk(call.bRes[k])
             /\ \A j \in 1..(k - 1) : IsOk(call.bRes[j])
    ELSE 0

\* C8: when in one composed feed call A, B or the caller's callback returns
\* an error, the call returns that same error; B is fed nothing after it
\* and nothing more is emitted to the caller.
C8_FirstErrorShortCircuits ==
    call.made =>
        /\ res = call.res
        /\ call.outs = Concat(call.bOuts)
        /\ FirstError # 0 =>
               /\ call.res = call.bRes[FirstError]
               /\ Len(call.fedB) = FirstError
        /\ (FirstError = 0 /\ ~IsOk(call.aRes)) =>
               /\ call.res = call.aRes
               /\ call.fedB = FedBeforeEof
        /\ (FirstError = 0 /\ IsOk(call.aRes)) => IsOk(call.res)
        /\ call.failed # 0 =>
               /\ call.res = CbErr
               /\ Len(call.outs) = call.failed

\* In one call A emitted two tokens; B returned an error for the first and
\* was not fed the second.
C8_Witness ==
    /\ call.made
    /\ Len(CharToTokenFeed(call.pre.a, call.at, call.i, 0).outs) = 2
    /\ Len(call.fedB) = 1
    /\ res = call.bRes[1]
    /\ res.kind = "BadData"

\* The tokenizer of the char -> value pipeline and its buffer.
TokenizerOf(st) == st.a.b.tk
BufferOf(st) == st.a.b.buf

\* In the feed logged, the tokenizer began in LineComment: no token came out
\* of it and nothing was pushed to the buffer, it is in LineComment or Start
\* afterwards, and in Start when it was fed a newline or the end of input.
CommentConsumes ==
    (call.made /\ TokenizerOf(call.pre).mode = "LineComment") =>
        /\ call.aOuts = <<>>
        /\ call.outs = <<>>
        /\ BufferOf(pipe.st) = BufferOf(call.pre)
        /\ TokenizerOf(pipe.st).mode \in {"LineComment", "Start"}
        /\ (call.pre.a.a.mode = "Normal" /\ call.i \in {None, Some(10)})
               => TokenizerOf(pipe.st).mode = "Start"
        /\ (call.pre.a.a.mode = "Normal" /\ call.i.some /\ call.i.v \notin {10, 92, 127})
               => TokenizerOf(pipe.st).mode = "LineComment"

\* The feeds s[k..] are the rest of a text of comments, spaces and newlines
\* only, then at most the end of input; plain asks that no comment holds a
\* backslash or a character without a class.
RECURSIVE CommentsOnly(_, _, _, _)
CommentsOnly(s, k, inComment, plain) ==
    IF k > Len(s) THEN TRUE
    ELSE IF ~s[k].some THEN k = Len(s)
    ELSE IF inComment
    THEN /\ plain => (s[k].v # 92 /\ s[k].v # 127 /\ (s[k].v >= 32 \/ s[k].v \in {9, 10}))
         /\ CommentsOnly(s, k + 1, s[k].v # 10, plain)
    ELSE /\ s[k].v \in {59, 32, 9, 10}
         /\ CommentsOnly(s, k + 1, s[k].v = 59, plain)

\* C27 as stated: the tokenizer consumes a line comment whatever is fed, and
\* every text of comments, spaces and newlines only gives no value and no
\* error.
C27_LineCommentsAnyText ==
    /\ CommentConsumes
    /\ CommentsOnly(fed, 1, FALSE, FALSE) => (out = <<>> /\ res = Ok)

\* C27, amended: the same for the texts whose comments hold no backslash
\* and no character without a class, which the decoder rejects or takes as
\* the start of an escape before the tokenizer sees them.
C27_LineComments ==
    /\ CommentConsumes
    /\ CommentsOnly(fed, 1, FALSE, TRUE) => (out = <<>> /\ res = Ok)

\* A comment holding a parenthesis, a quote or a hash was ended by a newline
\* and the text by the end of input.
C27_Witness ==
    /\ pc = "done"
    /\ CommentsOnly(fed, 1, FALSE, TRUE)
    /\ \E k \in 1..Len(fed) : fed[k] \in {Some(40), Some(34), Some(35)}
    /\ \E k \in 1..Len(fed) : fed[k] = Some(10)
    /\ out = <<>>

\* The feed logged found the tokenizer in PotentialIdentifier and the
\* decoder in Normal, was of ( ) " ; space or newline, and returned Ok.
ClosesPending ==
    /\ call.made
    /\ IsOk(call.res)
    /\ TokenizerOf(call.pre).mode = "PotentialIdentifier"
    /\ call.pre.a.a.mode = "Normal"
    /\ call.i.some
    /\ call.i.v \in {40, 41, 34, 59, 32, 10}

\* C30: a character that continues no identifier, fed while a token is
\* pending, makes that feed emit the pending token first, with its immediate
\* kind and at its start offset, and then do what the Start state does with
\* the character: emit ListStart or ListEnd at the character's offset, open
\* a string or a comment, or skip it.
C30_ReDispatch ==
    ClosesPending =>
        LET tk == TokenizerOf(call.pre)
            c == call.i.v
            after == TokenizerOf(pipe.st)
        IN  /\ Len(call.aOuts) = IF c \in {40, 41} THEN 2 ELSE 1
            /\ call.aOuts[1].at = tk.start
            /\ TokenType(call.aOuts[1].v) = tk.immediate
            /\ tk.immediate \in {"ID", "SpecialID"} => call.aOuts[1].v.val = BufferOf(call.pre)
            /\ c \in {40, 41} =>
                   /\ call.aOuts[2].at = call.at
                   /\ call.aOuts[2].v.type = IF c = 40 THEN "ListStart" ELSE "ListEnd"
            /\ after.mode = IF c = 34 THEN "String" ELSE IF c = 59 THEN "LineComment" ELSE "Start"
            /\ c = 34 => after.start = call.at
            /\ BufferOf(pipe.st) = <<>>

\* "a(" gave the symbol a at 0 and then ListStart at 1.
C30_Witness ==
    /\ ClosesPending
    /\ fed = <<Some(97), Some(40)>>
    /\ Len(call.aOuts) = 2
    /\ call.aOuts[1].v.type = "Symbol"
    /\ call.aOuts[1].v.val = <<97>>
    /\ call.aOuts[1].at = 0
    /\ call.aOuts[2].v.type = "ListStart"
    /\ call.aOuts[2].at = 1

---------------------------------------------------------------------------
(* A decoder fed any characters and ends of input, as its tests feed it:   *)
(* the same instance is fed again after an error and after the end of      *)
(* input.                                                                  *)
MaxDecoderInput == 5

\* A backslash, "x", "n", the hex digit 1, ";", LF and CR.
DecoderChars == {CH_BACKSLASH, 120, 110, 49, CH_SEMI, CH_LF, CH_CR}

\* The log of one feed call r of the decoder; modes holds the mode the
\* decoder was in before each feed made so far.
DecoderCallLog(st, at, i, r) ==
    [made |-> TRUE, pre |-> st, at |-> at, i |-> i, outs |-> r.outs, res |-> r.res,
     modes |-> Append(IF call.made THEN call.modes ELSE <<>>, st.mode)]

DecoderStep(i, fail) ==
    \E r \in {DecoderFeed(pipe.st, Len(fed), i, fail)} :
        /\ pipe' = [pipe EXCEPT !.st = r.st]
        /\ fed' = Append(fed, i)
        /\ out' = out \o r.outs
        /\ res' = r.res
        /\ call' = DecoderCallLog(pipe.st, Len(fed), i, r)
        /\ UNCHANGED <<src, text, pc>>

DecoderFeedsChar ==
    /\ Len(fed) < MaxDecoderInput
    /\ \E c \in DecoderChars, fail \in {0, 1} : DecoderStep(Some(c), fail)

DecoderFeedsEof ==
    /\ Len(fed) < MaxDecoderInput
    /\ DecoderStep(None, 0)

InitDecoder == InitWith(Decoder, NoSrc, <<>>)
NextDecoder == DecoderFeedsChar \/ DecoderFeedsEof
SpecDecoder == InitDecoder /\ [][NextDecoder]_vars

\* The last call fed the end of input.
DecoderEofFed == call.made /\ ~call.i.some

\* C11: the end of input fed to the decoder returns Interrupted exactly when
\* the decoder was in Escaping or HexEscape state and Ok otherwise, emits
\* nothing, and leaves the decoder equal to a newly created one.
C11_DecoderEndOfInput ==
    DecoderEofFed =>
        /\ call.pre.mode \in {"Escaping", "HexEscape"} => res.kind = "Interrupted"
        /\ call.pre.mode = "Normal" => res = Ok
        /\ call.outs = <<>>
        /\ pipe.st = DatumDecoderDefault

\* The end of input after a backslash, "x" and a digit: Interrupted, and the
\* decoder is as new.
C11_Witness ==
    /\ DecoderEofFed
    /\ call.pre.mode = "HexEscape"
    /\ call.pre.v # U32(0, 0)
    /\ res.kind = "Interrupted"
    /\ pipe.st = DatumDecoderDefault

\* The feed (1-based) that began the construct the feed k belongs to: the
\* last feed up to k before which the decoder was in Normal state.
RECURSIVE ConstructBegin(_)
ConstructBegin(k) ==
    IF k <= 1 \/ call.modes[k] = "Normal" THEN k ELSE ConstructBegin(k - 1)

\* C18: every classified character the decoder emits carries the offset
\* supplied with the first raw character of its construct, for an escape the
\* offset of its backslash; after a completed escape the decoder is in its
\* initial state.
C18_DecoderOffsetOfEscapes ==
    (call.made /\ call.outs # <<>>) =>
        /\ Len(call.outs) = 1
        /\ call.outs[1].at = ConstructBegin(Len(fed)) - 1
        /\ fed[ConstructBegin(Len(fed))].some
        /\ call.pre.mode # "Normal" => fed[ConstructBegin(Len(fed))].v = CH_BACKSLASH
        /\ (call.pre.mode # "Normal" /\ IsOk(res)) => pipe.st = DatumDecoderDefault

\* A hex escape that began at offset 1 and was completed three or more
\* characters later has emitted its character with offset 1.
C18_Witness ==
    /\ call.made
    /\ call.pre.mode = "HexEscape"
    /\ IsOk(res)
    /\ call.at >= 4
    /\ call.outs = <<Emission(1, DatumCharContent(1))>>
    /\ pipe.st = DatumDecoderDefault

\* C26: a carriage return fed to the decoder in any state emits nothing,
\* returns Ok and leaves the state of the decoder as it was.
C26_CarriageReturnDropped ==
    (call.made /\ call.i = Some(CH_CR)) =>
        /\ call.outs = <<>>
        /\ call.res = Ok
        /\ pipe.st = call.pre

\* A carriage return was fed inside a hex escape that had digits.
C26_Witness ==
    /\ call.made
    /\ call.i = Some(CH_CR)
    /\ call.pre.mode = "HexEscape"
    /\ call.pre.v # U32(0, 0)
    /\ pipe.st = call.pre

---------------------------------------------------------------------------
(* The decoder fed every kind of character in Normal and in Escaping state. *)
MaxEscapeInput == 2

\* A backslash; r, n, t and x; LF, CR and TAB; "(", ";", the digit 1, the
\* sign, a space, the letters a and e-acute; the controls 0x01 and 0x1F and
\* DEL.
EscapeChars ==
    {CH_BACKSLASH, 114, 110, 116, 120, CH_LF, CH_CR, CH_TAB, CH_LPAREN, CH_SEMI,
     49, CH_MINUS, CH_SPACE, 97, 233, 1, CH_US, CH_DEL}

EscapeFeedsChar ==
    /\ Len(fed) < MaxEscapeInput
    /\ \E c \in EscapeChars, fail \in {0, 1} : DecoderStep(Some(c), fail)

EscapeFeedsEof ==
    /\ Len(fed) < MaxEscapeInput
    /\ DecoderStep(None, 0)

InitEscape == InitWith(Decoder, NoSrc, <<>>)
NextEscape == EscapeFeedsChar \/ EscapeFeedsEof
SpecEscape == InitEscape /\ [][NextEscape]_vars

\* The last call fed a character to a decoder in the given mode.
FedIn(mode) == call.made /\ call.i.some /\ call.pre.mode = mode

\* The last call handed Content(content) to the callback once and, the
\* callback accepting it, returned Ok and left the decoder in Normal state.
CompletesEscape(content) ==
    /\ Len(call.outs) = 1
    /\ call.outs[1].v = DatumCharContent(content)
    /\ res # CbErr => (IsOk(res) /\ pipe.st = DecNormal)

\* The transitions of Escaping state on the character c.
EscapingTable(c) ==
    IF c = 114 THEN CompletesEscape(CH_CR)
    ELSE IF c = 110 THEN CompletesEscape(CH_LF)
    ELSE IF c = 116 THEN CompletesEscape(CH_TAB)
    ELSE IF c = 120
    THEN call.outs = <<>> /\ IsOk(res) /\ pipe.st.mode = "HexEscape" /\ pipe.st.v = U32(0, 0)
    ELSE IF c = CH_LF THEN call.outs = <<>> /\ res.kind = "BadData"
    ELSE CompletesEscape(c)

\* C32 as stated: in Escaping state r, n and t emit Content CR, LF and TAB
\* and return to Normal, x emits nothing and enters HexEscape with the
\* value 0, a raw newline is BadData, and any other character c emits
\* Content(c) and returns to Normal.
C32_EscapingAnyCharacter == FedIn("Escaping") => EscapingTable(call.i.v)

\* C32: the same transitions for every character but the carriage return,
\* which emits nothing, returns Ok and leaves the decoder in Escaping state.
C32_EscapingTransitions ==
    FedIn("Escaping") =>
        IF call.i.v = CH_CR
        THEN call.outs = <<>> /\ IsOk(res) /\ pipe.st = call.pre
        ELSE EscapingTable(call.i.v)

\* A backslash and then "(": Content "(" and Normal state again.
C32_Witness ==
    /\ FedIn("Escaping")
    /\ call.i.v = CH_LPAREN
    /\ call.outs = <<Emission(0, DatumCharContent(CH_LPAREN))>>
    /\ IsOk(res)
    /\ pipe.st = DecNormal

\* The characters that are forbidden outside an escape: the controls below
\* 0x20 other than tab, newline and carriage return, and 0x7F.
Forbidden(c) == (c < CH_SPACE /\ c \notin {CH_TAB, CH_LF, CH_CR}) \/ c = CH_DEL

\* C33: in Normal state a classifiable character is emitted exactly once
\* with its own class and the state stays Normal; a backslash emits nothing
\* and enters Escaping; a forbidden character returns BadData and emits
\* nothing.
C33_NormalState ==
    FedIn("Normal") =>
        IF call.i.v = CH_BACKSLASH
        THEN call.outs = <<>> /\ IsOk(res) /\ pipe.st.mode = "Escaping"
        ELSE IF Forbidden(call.i.v)
        THEN call.outs = <<>> /\ res.kind = "BadData"
        ELSE call.i.v # CH_CR =>
                 /\ call.outs = <<Emission(call.at, DatumChar(call.i.v, Identify(call.i.v)))>>
                 /\ Identify(call.i.v) # "None"
                 /\ res \in {Ok, CbErr}
                 /\ pipe.st = DecNormal

\* The control 0x1F after an accepted "a": BadData at offset 1.
C33_Witness ==
    /\ FedIn("Normal")
    /\ Len(fed) = 2
    /\ fed[1] = Some(97)
    /\ call.i.v = CH_US
    /\ res = Err("BadData", 1)
    /\ out = <<Emission(0, DatumChar(97, "Content"))>>

---------------------------------------------------------------------------
(* Tokens that begin with a sign, read through decoder -> tokenizer.       *)
MaxSignInput == 4

\* "-", "a", "0", "1", ".", a space and ")".
SignChars == {CH_MINUS, 97, CH_0, 49, CH_DOT, CH_SPACE, CH_RPAREN}

FeedSignChar ==
    /\ pc = "run"
    /\ Len(fed) < MaxSignInput
    /\ \E c \in SignChars : Step(Some(c), 0)
    /\ UNCHANGED <<src, text>>

InitSign == InitWith(CharToToken, NoSrc, <<>>)
NextSign == FeedSignChar \/ FeedEnd
SpecSign == InitSign /\ [][NextSign]_vars

\* The characters fed[from..to].
FedChars(from, to) == [k \in 1..((to - from) + 1) |-> fed[(from + k) - 1].v]

\* fed[k] is a character of the potential-identifier classes met here.
IsIdentifierFeed(k) == fed[k].some /\ fed[k].v \in {CH_MINUS, 97, CH_0, 49, CH_DOT}

\* fed[k] ends a token: the end of input, or a character that is no
\* potential-identifier character.
IsTokenEnd(k) == k <= Len(fed) /\ ~IsIdentifierFeed(k)

\* The input so far is one token that begins with a sign, has more
\* characters, and was ended by the last feed.
SignTokenEnded ==
    /\ Len(fed) >= 3
    /\ fed[1] = Some(CH_MINUS)
    /\ \A k \in 2..(Len(fed) - 1) : IsIdentifierFeed(k)
    /\ IsTokenEnd(Len(fed))

\* The tokens emitted before those of the character that ended the token.
TokensOfFirst == IF fed[Len(fed)] = Some(CH_RPAREN) THEN SubSeq(out, 1, Len(out) - 1) ELSE out

\* C12 as claimed: a token that begins with a sign followed by a character
\* that is no digit is a Symbol with that text, and no error.
C12_SignStartedSymbols ==
    (SignTokenEnded /\ ~IsDigitChar(fed[2].v)) =>
        /\ res = Ok
        /\ TokensOfFirst =
               <<Emission(0, DatumToken("Symbol", FedChars(1, Len(fed) - 1), 0))>>

\* C12 amended: a token that begins with a sign and has any further
\* character is numeric, so a sign followed by a character that is no digit
\* is never a Symbol: it is BadData with nothing emitted, unless its text
\* is a number (here "-." and digits, a Float).
C12_SignStartedNumeric ==
    (SignTokenEnded /\ ~IsDigitChar(fed[2].v)) =>
        IF /\ fed[2].v = CH_DOT
           /\ Len(fed) >= 4
           /\ \A k \in 3..(Len(fed) - 1) : IsDigitChar(fed[k].v)
        THEN /\ res = Ok
             /\ Len(TokensOfFirst) = 1
             /\ TokensOfFirst[1].v.type = "Float"
        ELSE /\ res.kind = "BadData"
             /\ out = <<>>

\* "--" and the end of input: BadData, no token.
C12_Witness ==
    /\ fed = <<Some(CH_MINUS), Some(CH_MINUS), None>>
    /\ res.kind = "BadData"
    /\ out = <<>>


\* fed[k] begins a token: it is the first character, or follows a space or
\* a ")".
IsTokenBegin(k) == k = 1 \/ fed[k - 1] \in {Some(CH_SPACE), Some(CH_RPAREN)}

\* The number the decimal digits fed[from..to] denote.
RECURSIVE DecimalValue(_, _)
DecimalValue(from, to) ==
    IF from > to THEN 0
    ELSE (DecimalValue(from, to - 1) * 10) + (fed[to].v - CH_0)

\* The i64 -n, for a small natural n.
NegativeI64(n) ==
    IF n = 0 THEN <<0, 0, 0, 0>> ELSE <<LIMB - 1, LIMB - 1, LIMB - 1, LIMB - n>>

\* The token v was emitted with offset at.
Emitted(at, v) == \E j \in 1..Len(out) : out[j] = Emission(at, v)

\* C13: a token of only the sign, closed by the end of input or by a
\* character that is no potential-identifier character, is Symbol("-"); a
\* sign followed only by decimal digits is one Integer token with the
\* negative value.
C13_LoneSignAndNegative ==
    \A k \in 1..Len(fed), e \in 2..(Len(fed) + 1) :
        (/\ k < e
         /\ e <= Len(fed)
         /\ fed[k] = Some(CH_MINUS)
         /\ IsTokenBegin(k)
         /\ \A d \in (k + 1)..(e - 1) : fed[d].some /\ IsDigitChar(fed[d].v)
         /\ IsTokenEnd(e))
        => /\ e = Len(fed) => res = Ok
           /\ IF e = k + 1
              THEN Emitted(k - 1, DatumToken("Symbol", <<CH_MINUS>>, k - 1))
              ELSE Emitted(k - 1, DatumToken("Integer",
                                             NegativeI64(DecimalValue(k + 1, e - 1)), k - 1))

\* "-10" and the end of input: Integer(-10).
C13_Witness ==
    /\ fed = <<Some(CH_MINUS), Some(49), Some(CH_0), None>>
    /\ res = Ok
    /\ out = <<Emission(0, DatumToken("Integer", <<LIMB - 1, LIMB - 1, LIMB - 1, LIMB - 10>>, 0))>>

---------------------------------------------------------------------------
(* The tokenizer state machine fed classified characters and ends of input *)
(* directly; the same instance is fed again after an error.                *)
MaxTokenizerInput == 3

\* One character of every class, and a "(" escaped into content.
TokenizerChars ==
    {DatumChar(c, Identify(c)) :
        c \in {97, CH_MINUS, 49, CH_HASH, CH_QUOTE, CH_SEMI, CH_LF, CH_SPACE,
               CH_LPAREN, CH_RPAREN}}
    \cup {DatumCharContent(CH_LPAREN)}

\* One feed call of the tokenizer and its log: modes holds the mode the
\* tokenizer was in before each feed made so far, accepted whether every
\* callback so far accepted.
TokenizerStep(i, fail) ==
    \E r \in {TokenizerFeed(pipe.st, Len(fed), i, fail)} :
        /\ pipe' = [pipe EXCEPT !.st = r.st]
        /\ fed' = Append(fed, i)
        /\ out' = out \o r.outs
        /\ res' = r.res
        /\ call' = [made |-> TRUE, pre |-> pipe.st, at |-> Len(fed), i |-> i,
                    outs |-> r.outs, res |-> r.res,
                    modes |-> Append(IF call.made THEN call.modes ELSE <<>>, pipe.st.mode),
                    accepted |-> (call.made => call.accepted) /\ r.res # CbErr]
        /\ UNCHANGED <<src, text, pc>>

TokenizerFeedsChar ==
    /\ Len(fed) < MaxTokenizerInput
    /\ \E c \in TokenizerChars, fail \in 0..2 : TokenizerStep(Some(c), fail)

TokenizerFeedsEof ==
    /\ Len(fed) < MaxTokenizerInput
    /\ \E fail \in {0, 1} : TokenizerStep(None, fail)

InitTokenizer == InitWith([kind |-> "Tokenizer", st |-> DatumTokenizerDefault], NoSrc, <<>>)
NextTokenizer == TokenizerFeedsChar \/ TokenizerFeedsEof
SpecTokenizer == InitTokenizer /\ [][NextTokenizer]_vars

\* The last call fed the end of input to a tokenizer in the given mode.
EofIn(mode) == call.made /\ ~call.i.some /\ call.pre.mode = mode

\* The feed (1-based) that began the token pending before the feed k: the
\* last one that did not find a pending token.
RECURSIVE PendingBegin(_)
PendingBegin(k) ==
    IF k <= 1 \/ call.modes[k - 1] # "PotentialIdentifier" THEN k - 1
    ELSE PendingBegin(k - 1)

\* The kind of a token closed with no look-ahead, begun by a character of
\* the class first and holding more characters or not: a lone sign is an
\* ID, a sign with more is numeric.
ImmediateKind(first, more) ==
    IF first = "SpecialID" THEN "SpecialID"
    ELSE IF first = "Digit" THEN "Numeric"
    ELSE IF first = "Sign" /\ more THEN "Numeric"
    ELSE "ID"

\* C34: the end of input fed to the tokenizer in PotentialIdentifier emits
\* exactly one Token of the pending immediate kind at the start offset of
\* the token and, the callback accepting it, leaves Start; in String it
\* returns Interrupted and emits nothing; in Start or LineComment it emits
\* nothing, returns Ok and leaves Start.
C34_TokenizerEndOfInput ==
    /\ EofIn("PotentialIdentifier") =>
           /\ Len(call.outs) = 1
           /\ call.outs[1].v.act = "Token"
           /\ call.outs[1].v.type = call.pre.immediate
           /\ call.outs[1].at = call.pre.start
           /\ res # CbErr => (IsOk(res) /\ pipe.st.mode = "Start")
           /\ call.accepted =>
                  /\ call.outs[1].at = PendingBegin(Len(fed)) - 1
                  /\ call.outs[1].v.type =
                         ImmediateKind(fed[PendingBegin(Len(fed))].v.class,
                                       PendingBegin(Len(fed)) < Len(fed) - 1)
    /\ EofIn("String") => (res.kind = "Interrupted" /\ call.outs = <<>>)
    /\ (EofIn("Start") \/ EofIn("LineComment")) =>
           (call.outs = <<>> /\ IsOk(res) /\ pipe.st.mode = "Start")

\* A space, a sign and the end of input: the token ID at offset 1.
C34_Witness ==
    /\ EofIn("PotentialIdentifier")
    /\ Len(fed) = 3
    /\ fed[2] = Some(DatumChar(CH_MINUS, "Sign"))
    /\ call.outs = <<Emission(1, Token("ID"))>>
    /\ IsOk(res)
    /\ pipe.st.mode = "Start"

---------------------------------------------------------------------------
(* A parser fed tokens and ends of input directly; the same instance is    *)
(* fed again after an error and after the end of input.                    *)
MaxParserInput == 6

\* "(", ")", the symbol a, the integer 1 and the special atom #b, which no
\* atom is.
ParserTokens(at) ==
    {DatumToken("ListStart", <<>>, at), DatumToken("ListEnd", <<>>, at),
     DatumToken("Symbol", <<97>>, at), DatumToken("Integer", I64Small(1), at),
     DatumToken("SpecialID", <<98>>, at)}

\* The log of one feed call r of the parser; depths holds the number of
\* lists that were open before each feed made so far.
ParserCallLog(st, at, i, r) ==
    [made |-> TRUE, pre |-> st, at |-> at, i |-> i, outs |-> r.outs, res |-> r.res,
     depths |-> Append(IF call.made THEN call.depths ELSE <<>>, Len(st.stack))]

ParserStep(i, fail) ==
    \E r \in {ParserFeed(pipe.st, Len(fed), i, fail)} :
        /\ pipe' = [pipe EXCEPT !.st = r.st]
        /\ fed' = Append(fed, i)
        /\ out' = out \o r.outs
        /\ res' = r.res
        /\ call' = ParserCallLog(pipe.st, Len(fed), i, r)
        /\ UNCHANGED <<src, text, pc>>

ParserFeedsToken ==
    /\ Len(fed) < MaxParserInput
    /\ \E t \in ParserTokens(Len(fed)), fail \in {0, 1} : ParserStep(Some(t), fail)

ParserFeedsEof ==
    /\ Len(fed) < MaxParserInput
    /\ ParserStep(None, 0)

InitParser == InitWith([kind |-> "Parser", st |-> DatumParserDefault], NoSrc, <<>>)
NextParser == ParserFeedsToken \/ ParserFeedsEof
SpecParser == InitParser /\ [][NextParser]_vars

\* C14: a ListEnd token fed to a parser whose stack is empty returns BadData
\* with the offset supplied with that token, emits no value and leaves the
\* stack empty.
C14_UnmatchedListEnd ==
    (/\ call.made
     /\ call.i.some
     /\ call.i.v.type = "ListEnd"
     /\ call.pre.stack = <<>>)
    => /\ res = Err("BadData", call.at)
       /\ call.outs = <<>>
       /\ pipe.st.stack = <<>>

\* A ")" fed after a complete list, at offset 2.
C14_Witness ==
    /\ Len(fed) = 3
    /\ call.at = 2
    /\ call.i.v.type = "ListEnd"
    /\ call.pre.stack = <<>>
    /\ res = Err("BadData", 2)

\* C15: the end of input fed to the parser returns Interrupted exactly when
\* a list is open and Ok when the stack is empty, and never emits a value.
C15_ParserEndOfInput ==
    (call.made /\ ~call.i.some) =>
        /\ call.pre.stack # <<>> => res.kind = "Interrupted"
        /\ call.pre.stack = <<>> => res = Ok
        /\ call.outs = <<>>

\* The end of input inside two open lists, the inner one holding a value.
C15_Witness ==
    /\ call.made
    /\ ~call.i.some
    /\ Len(call.pre.stack) = 2
    /\ call.pre.stack[2] # <<>>
    /\ res.kind = "Interrupted"

\* The feed (1-based) whose token began the value the feed k completes: the
\* last feed up to k before which no list was open.
RECURSIVE ValueBegin(_)
ValueBegin(k) ==
    IF k <= 1 \/ call.depths[k] = 0 THEN k ELSE ValueBegin(k - 1)

\* C17: every top-level value the parser emits carries the offset supplied
\* with the first token of the value, for a list the offset of its
\* outermost ListStart, at every nesting depth.
C17_ParserOffsetJumpBack ==
    (call.made /\ call.outs # <<>>) =>
        /\ Len(call.outs) = 1
        /\ call.outs[1].at = ValueBegin(Len(fed)) - 1
        /\ fed[ValueBegin(Len(fed))].some
        /\ call.outs[1].v.t = "List" =>
               /\ fed[ValueBegin(Len(fed))].v.type = "ListStart"
               /\ ValueBegin(Len(fed)) < Len(fed)

\* A list that holds a list, begun at offset 1 and completed at offset 5,
\* was emitted with offset 1.
C17_Witness ==
    /\ call.made
    /\ call.at = 5
    /\ IsOk(res)
    /\ call.outs = <<Emission(1, ValueList(<<ValueList(<<>>),
                                             ValueAtom(DatumAtom("Symbol", <<97>>))>>))>>

\* A token that an atom can be made of.
Convertible(token) ==
    /\ token.type \notin {"ListStart", "ListEnd"}
    /\ IsOk(AtomTryFrom(token).res)

\* The tokens of the feeds from..to that are part of a value: the ends of
\* input and the tokens no atom can be made of are left out.
RECURSIVE ValueTokens(_, _)
ValueTokens(from, to) ==
    IF from > to THEN <<>>
    ELSE (IF fed[from].some
             /\ (fed[from].v.type \in {"ListStart", "ListEnd"} \/ Convertible(fed[from].v))
          THEN <<fed[from].v>> ELSE <<>>) \o ValueTokens(from + 1, to)

\* The value written by the tokens ts from position p on, read by the
\* grammar value ::= atom | "(" value* ")"; next is the position after it.
RECURSIVE ReadValue(_, _), ReadList(_, _, _)
ReadValue(ts, p) ==
    IF ts[p].type = "ListStart" THEN ReadList(ts, p + 1, <<>>)
    ELSE [v |-> ValueAtom(AtomTryFrom(ts[p]).atom), next |-> p + 1]

ReadList(ts, p, acc) ==
    IF ts[p].type = "ListEnd" THEN [v |-> ValueList(acc), next |-> p + 1]
    ELSE LET Rest(r) == ReadList(ts, r.next, Append(acc, r.v))
         IN  Rest(ReadValue(ts, p))

\* C31: the parser emits a value exactly when a token completes a
\* top-level value (a convertible atom with no list open, or the ListEnd
\* that closes the only open list); a ListStart pushes one empty buffer; a
\* value completed inside a list is appended to the top buffer and not
\* emitted; and an emitted value is the one its tokens write, children in
\* input order, nested lists included.
C31_ParserListBuilding ==
    (call.made /\ call.i.some) =>
        LET token == call.i.v
            before == call.pre.stack
            after == pipe.st.stack
            n == Len(call.pre.stack)
        IN  /\ (call.outs # <<>>) <=>
                   \/ Convertible(token) /\ n = 0
                   \/ token.type = "ListEnd" /\ n = 1
            /\ Len(call.outs) <= 1
            /\ token.type = "ListStart" => after = Append(before, <<>>)
            /\ (Convertible(token) /\ n > 0) =>
                   after = [before EXCEPT
                               ![n] = Append(before[n], ValueAtom(AtomTryFrom(token).atom))]
            /\ (token.type = "ListEnd" /\ n > 1) =>
                   after = [Pop(before) EXCEPT
                               ![n - 1] = Append(before[n - 1], ValueList(before[n]))]
            /\ call.outs # <<>> =>
                   /\ call.outs[1].v =
                          ReadValue(ValueTokens(ValueBegin(Len(fed)), Len(fed)), 1).v
                   /\ after = <<>>

\* "(a (1))" was fed and the list of a and the list of 1 emitted.
C31_Witness ==
    /\ call.made
    /\ Len(fed) = 6
    /\ IsOk(res)
    /\ call.outs = <<Emission(0, ValueList(<<ValueAtom(DatumAtom("Symbol", <<97>>)),
                          ValueList(<<ValueAtom(DatumAtom("Integer", I64Small(1)))>>)>>))>>

\* C38: a parser feed that returns an error of the parser itself
\* (Interrupted at the end of input inside a list, BadData for an unmatched
\* ListEnd or for a token no atom can be made of) leaves the stack of open
\* lists and the children in them as they were.
C38_ParserKeepsStateOnError ==
    (call.made /\ res.kind \in {"Interrupted", "BadData"}) =>
        pipe.st.stack = call.pre.stack

\* "(a #b (" and the end of input: after the BadData of #b and the
\* Interrupted of the end of input both lists are open and a is in the
\* outer one.
C38_Witness ==
    /\ Len(fed) = 5
    /\ fed[3].some
    /\ fed[3].v.type = "SpecialID"
    /\ ~call.i.some
    /\ res = Err("Interrupted", 4)
    /\ pipe.st.stack = <<<<ValueAtom(DatumAtom("Symbol", <<97>>))>>, <<>>>>

---------------------------------------------------------------------------
(* Tokens converted to atoms.                                              *)
MaxSpecialLen == 3

\* t, F, n, i, l, x, X, 1, g, "-" and "+".
SpecialChars == {116, 70, 110, 105, 108, 120, 88, 49, 103, CH_MINUS, CH_PLUS}

\* {}#, the spellings of the special floats, and hex integers at the ends
\* of the range of an i64.
SpecialTexts ==
    SeqsUpTo(SpecialChars, MaxSpecialLen)
    \cup {<<123, 125, CH_HASH>>, <<123, 125>>, <<78, 73, 76>>,
          <<105, CH_PLUS, 110, 97, 110, CH_DOT, CH_0>>,
          <<73, CH_PLUS, 78, 97, 78, CH_DOT, CH_0>>,
          <<105, CH_PLUS, 105, 110, 102, CH_DOT, CH_0>>,
          <<105, CH_MINUS, 105, 110, 102, CH_DOT, CH_0>>,
          <<73, CH_MINUS, 73, 78, 70, CH_DOT, CH_0>>,
          <<105, CH_PLUS, 105, 110, 102, CH_DOT, 49>>,
          <<120>> \o [k \in 1..16 |-> IF k = 1 THEN 55 ELSE 102],
          <<120>> \o [k \in 1..16 |-> IF k = 1 THEN 56 ELSE CH_0],
          <<120, CH_MINUS>> \o [k \in 1..16 |-> IF k = 1 THEN 56 ELSE CH_0]}

AtomizedTokens ==
    {DatumToken("SpecialID", t, 0) : t \in SpecialTexts}
    \cup {DatumToken("String", <<116>>, 0), DatumToken("Symbol", <<110, 105, 108>>, 0),
          DatumToken("Integer", <<0, 0, 0, 16>>, 0), DatumToken("Float", FloatNaN, 0),
          DatumToken("Float", <<49, CH_DOT, CH_0>>, 0),
          DatumToken("ListStart", <<>>, 0), DatumToken("ListEnd", <<>>, 0)}

\* DatumAtom::try_from(token), called on the token src.
AtomConvert ==
    /\ pc = "run"
    /\ \E r \in {AtomTryFrom(src)} :
           /\ res' = r.res
           /\ out' = IF IsOk(r.res) THEN <<r.atom>> ELSE <<>>
    /\ pc' = "done"
    /\ UNCHANGED <<pipe, src, text, fed, call>>

InitAtom == \E t \in AtomizedTokens : InitWith([kind |-> "Atom", st |-> <<>>], t, <<>>)
NextAtom == AtomConvert
SpecAtom == InitAtom /\ [][NextAtom]_vars

IsHexDigitChar(c) == IsDigitChar(c) \/ (c >= 97 /\ c <= 102) \/ (c >= 65 /\ c <= 70)
HexDigitValue(c) == IF IsDigitChar(c) THEN c - CH_0 ELSE IF c >= 97 THEN c - 87 ELSE c - 55

\* The number the hex digits s denote, for a number below 2^16.
RECURSIVE HexNumber(_)
HexNumber(s) ==
    IF s = <<>> THEN 0 ELSE (HexNumber(SubSeq(s, 1, Len(s) - 1)) * 16) + HexDigitValue(s[Len(s)])

\* s with its capital letters A to Z made small.
InAnyCase(s) == [k \in 1..Len(s) |-> IF s[k] \in 65..90 THEN s[k] + 32 ELSE s[k]]

\* The atom the fixed table gives a SpecialID text, None for BadData; with
\* signed, the hex digits may follow a sign.
SpecialAtom(b, signed) ==
    LET low == InAnyCase(b)
        sign == signed /\ Len(b) >= 2 /\ b[2] \in {CH_PLUS, CH_MINUS}
        digits == IF sign THEN Drop(b, 2) ELSE Drop(b, 1)
        allHex == digits # <<>> /\ \A k \in 1..Len(digits) : IsHexDigitChar(digits[k])
    IN  IF low = <<116>> THEN Some(AtomBoolean(TRUE))
        ELSE IF low = <<102>> THEN Some(AtomBoolean(FALSE))
        ELSE IF low = <<110, 105, 108>> THEN Some(AtomNil)
        ELSE IF b = <<123, 125, CH_HASH>> THEN Some(DatumAtom("Symbol", <<>>))
        ELSE IF low = <<105, CH_PLUS, 110, 97, 110, CH_DOT, CH_0>>
             THEN Some(DatumAtom("Float", FloatNaN))
        ELSE IF low = <<105, CH_PLUS, 105, 110, 102, CH_DOT, CH_0>>
             THEN Some(DatumAtom("Float", FloatInf))
        ELSE IF low = <<105, CH_MINUS, 105, 110, 102, CH_DOT, CH_0>>
             THEN Some(DatumAtom("Float", FloatNegInf))
        ELSE IF b # <<>> /\ low[1] = 120 /\ allHex
             THEN IF Len(digits) <= MaxSpecialLen
                  THEN Some(DatumAtom("Integer",
                                      IF sign /\ b[2] = CH_MINUS
                                      THEN NegativeI64(HexNumber(digits))
                                      ELSE <<0, 0, 0, HexNumber(digits)>>))
                  ELSE IF digits[1] = 55
                       THEN Some(DatumAtom("Integer", <<32767, LIMB - 1, LIMB - 1, LIMB - 1>>))
                  ELSE IF sign THEN Some(DatumAtom("Integer", <<32768, 0, 0, 0>>))
                  ELSE None
        ELSE None

\* The atom of the table for the token src, None for an error.
TableAtom(signed) ==
    IF src.type \in {"String", "Symbol", "Integer", "Float"}
    THEN Some(DatumAtom(src.type, src.val))
    ELSE IF src.type = "SpecialID" THEN SpecialAtom(src.val, signed)
    ELSE None

\* The conversion of src gave what the table gives.
ConvertedAs(expected) ==
    IF expected.some THEN res = Ok /\ out = <<expected.v>>
    ELSE res.kind = "BadData" /\ out = <<>>

\* C16 as claimed: atom conversion is the fixed table, in which x or X is
\* followed by hex digits only.
C16_AtomConversionTable == pc = "done" => ConvertedAs(TableAtom(FALSE))

\* C16 amended: atom conversion is the fixed table, in which x or X is
\* followed by an optional sign, "+" or "-", and hex digits: #x-1 is
\* Integer(-1).
C16_AtomConversionSigned == pc = "done" => ConvertedAs(TableAtom(TRUE))

\* #x-1 was converted to Integer(-1).
C16_Witness ==
    /\ pc = "done"
    /\ src = DatumToken("SpecialID", <<120, CH_MINUS, 49>>, 0)
    /\ out = <<DatumAtom("Integer", <<LIMB - 1, LIMB - 1, LIMB - 1, LIMB - 1>>)>>

---------------------------------------------------------------------------
(* A byte decoder fed any bytes and ends of input; the same instance is    *)
(* fed again after an error and after the end of input.                    *)
MaxByteInput == 5

\* "A", the continuation bytes 80, 90 and A0, and the bytes C0, C2, E0, F0
\* and FF.
InputBytes == {65, 128, 144, 160, 192, 194, 224, 240, 255}

ByteCallLog(st, at, i, r) ==
    [made |-> TRUE, pre |-> st, at |-> at, i |-> i, outs |-> r.outs, res |-> r.res]

ByteStep(i, fail) ==
    \E r \in {UTF8DecoderFeed(pipe.st, Len(fed), i, fail)} :
        /\ pipe' = [pipe EXCEPT !.st = r.st]
        /\ fed' = Append(fed, i)
        /\ out' = out \o r.outs
        /\ res' = r.res
        /\ call' = ByteCallLog(pipe.st, Len(fed), i, r)
        /\ UNCHANGED <<src, text, pc>>

FeedsByte ==
    /\ Len(fed) < MaxByteInput
    /\ \E b \in InputBytes, fail \in {0, 1} : ByteStep(Some(b), fail)

FeedsByteEof ==
    /\ Len(fed) < MaxByteInput
    /\ ByteStep(None, 0)

InitBytes == InitWith([kind |-> "UTF8Decoder", st |-> DatumUTF8DecoderDefault], NoSrc, <<>>)
NextBytes == FeedsByte \/ FeedsByteEof
SpecBytes == InitBytes /\ [][NextBytes]_vars

\* The bytes b, which begin with a byte above 127, can be completed into a
\* valid UTF-8 encoding, or are one: a first byte C2..F4, a second byte in
\* the range the first allows, continuation bytes after it, and no more
\* bytes than the first announces.
CanComplete(b) ==
    /\ b[1] >= 194 /\ b[1] <= 244
    /\ Len(b) <= (IF b[1] <= 223 THEN 2 ELSE IF b[1] <= 239 THEN 3 ELSE 4)
    /\ Len(b) >= 2 =>
           /\ b[2] >= (IF b[1] = 224 THEN 160 ELSE IF b[1] = 240 THEN 144 ELSE 128)
           /\ b[2] <= (IF b[1] = 237 THEN 159 ELSE IF b[1] = 244 THEN 143 ELSE 191)
    /\ \A k \in 3..Len(b) : b[k] >= 128 /\ b[k] <= 191

\* The last call fed a byte to a decoder that held the bytes call.pre.buffer.
ByteFed == call.made /\ call.i.some

\* C19: the byte decoder returns BadData on the very feed of a continuation
\* byte when no sequence is in progress, of a byte that makes the buffered
\* sequence impossible to complete into a valid UTF-8 encoding, and of any
\* byte that arrives while 4 unresolved bytes are buffered; such input is
\* never reported as Interrupted.
C19_Utf8Rejection ==
    /\ (ByteFed /\ call.pre.buffer = <<>> /\ IsContinuation(call.i.v))
           => res.kind = "BadData"
    /\ (ByteFed /\ call.i.v > 127 /\ ~CanComplete(Append(call.pre.buffer, call.i.v)))
           => res.kind = "BadData"
    /\ (ByteFed /\ Len(call.pre.buffer) = UTF8_DECODE_BUFFER) => res.kind = "BadData"
    /\ (call.made /\ ~call.i.some /\ call.pre.buffer # <<>> /\ ~CanComplete(call.pre.buffer))
           => res.kind # "Interrupted"

\* C20: the end of input fed to the byte decoder returns Interrupted exactly
\* when at least one byte of an unfinished sequence is buffered, and Ok with
\* no output when the buffer is empty.
C20_Utf8EndOfInput ==
    (call.made /\ ~call.i.some) =>
        /\ call.pre.buffer # <<>> => res.kind = "Interrupted"
        /\ call.pre.buffer = <<>> => res = Ok
        /\ call.outs = <<>>

\* The end of input after the first two bytes of a three-byte encoding.
C20_Witness ==
    /\ call.made
    /\ ~call.i.some
    /\ call.pre.buffer = <<224, 160>>
    /\ res.kind = "Interrupted"

\* C39: in every reachable state of the byte decoder the buffered length
\* is between 0 and 4, it is 0 right after a character was emitted, and no
\* feed panics, by a buffer write at an index of 4 or more or by
\* unreachable!().
C39_Utf8NeverPanics ==
    /\ Len(pipe.st.buffer) \in 0..4
    /\ (call.made /\ call.outs # <<>>) => pipe.st.buffer = <<>>
    /\ res.kind # "Panic"

\* A byte fed to a decoder that holds the four bytes F0 80 80 80, which no
\* byte completes: BadData, and the four bytes are still held.
C39_Witness ==
    /\ call.made
    /\ call.i = Some(128)
    /\ call.pre.buffer = <<240, 128, 128, 128>>
    /\ res = Err("BadData", 4)
    /\ pipe.st.buffer = <<240, 128, 128, 128>>

---------------------------------------------------------------------------
(* SpecByteChar: one text through the char -> value pipeline as its       *)
(* characters and through the byte -> value pipeline as its UTF-8 bytes,  *)
(* as do_roundtrip_test does.  src holds the text and the finished run of *)
(* the character pipeline; the byte pipeline is fed call by call.         *)
MaxByteCharLen == 3

\* a ( ) " # space, a backslash, and characters of 2, 3 and 4 bytes
ByteCharChars == {97, CH_LPAREN, CH_RPAREN, CH_QUOTE, CH_HASH, CH_SPACE,
                  CH_BACKSLASH, 233, 8364, 128512}
ByteCharTexts == UNION {[1..n -> ByteCharChars] : n \in 0..MaxByteCharLen}

\* The UTF-8 encoding of the character c (str::bytes of one character).
Utf8Encode(c) ==
    IF c < 128 THEN <<c>>
    ELSE IF c < 2048 THEN <<192 + (c \div 64), 128 + (c % 64)>>
    ELSE IF c < 65536
    THEN <<224 + (c \div 4096), 128 + ((c \div 64) % 64), 128 + (c % 64)>>
    ELSE <<240 + (c \div 262144), 128 + ((c \div 4096) % 64),
           128 + ((c \div 64) % 64), 128 + (c % 64)>>

\* input.bytes()
RECURSIVE Utf8Bytes(_)
Utf8Bytes(s) == IF s = <<>> THEN <<>> ELSE Utf8Encode(Head(s)) \o Utf8Bytes(Tail(s))

\* DatumPipe::feed_iter_to_vec from the offset reached, with the emissions
\* so far in target: the pipe afterwards, the target and the result.
RECURSIVE FeedIterToVec(_, _, _, _, _)
FeedIterToVec(p, target, source, offset, eof) ==
    IF source = <<>>
    THEN IF eof
         THEN LET Fed(r) == [pipe |-> [p EXCEPT !.st = r.st],
                             target |-> target \o r.outs, res |-> r.res]
              IN  Fed(PipeFeed(p, offset, None, 0))
         ELSE [pipe |-> p, target |-> target, res |-> Ok]
    ELSE LET Fed(r) ==
                 IF ~IsOk(r.res)
                 THEN [pipe |-> [p EXCEPT !.st = r.st],
                       target |-> target \o r.outs, res |-> r.res]
                 ELSE FeedIterToVec([p EXCEPT !.st = r.st], target \o r.outs,
                                    Tail(source), offset + 1, eof)
         IN  Fed(PipeFeed(p, offset, Some(Head(source)), 0))

InitByteChar ==
    \E s \in ByteCharTexts :
        InitWith(ByteToValue,
                 [chars |-> s, run |-> FeedIterToVec(CharToValue, <<>>, s, 0, TRUE)],
                 Utf8Bytes(s))
NextByteChar == FeedText \/ FeedEnd
SpecByteChar == InitByteChar /\ [][NextByteChar]_vars

\* The values of a sequence of emissions, without their offsets.
ValuesOf(emissions) == [k \in 1..Len(emissions) |-> emissions[k].v]

\* C21: once the byte -> value pipeline has been fed the UTF-8 bytes of a
\* text and the end of input (or has stopped at its first error), it has
\* produced the same values in the same order, and the same kind of result,
\* as the char -> value pipeline fed the characters of that text and the end
\* of input.
C21_BytesAsChars ==
    pc \in {"done", "error"} =>
        /\ ValuesOf(out) = ValuesOf(src.run.target)
        /\ res.kind = src.run.res.kind

\* A text with a character of several bytes was read to its end and gave
\* values.
C21_Witness ==
    /\ pc = "done"
    /\ \E k \in 1..Len(src.chars) : src.chars[k] > 127
    /\ Len(fed) > Len(src.chars) + 1
    /\ out # <<>>

---------------------------------------------------------------------------
(* Buffered pipes.  A buffered pipe is a DatumBufBoundedPipe around one    *)
(* stage (the stage, its output queue and its pending error) or a          *)
(* DatumBufComposePipe of two buffered pipes.  An output queue is the      *)
(* sequence of its elements; its capacity is the worst case of one feed.   *)
(* What buffer_next and Iterator::next return is None, Some(an error) or    *)
(* Some([kind |-> "Ok", v |-> the output]).  A composition also records in *)
(* log what its buffer_next calls did since its last buffer_feed: "value"  *)
(* and "eof" for an output of A and the end of input fed to B, "error" for *)
(* an error A returned.                                                    *)
\* The capacity of the queue a composition declares: `BQ::Mul` of B's queue
\* and the queue of A made one longer.
ComposeQueueSize(a, b) == (a + 1) * b

\* The capacities of the queues the decoder and the token stage declare:
\* an input gives the decoder at most one character to emit, and a
\* character can make the token stage close one token and emit another.
AssumedQueueSize(stage) ==
    CASE stage = "DatumDecoder" -> 1
      [] stage = "DatumPipeTokenizer" -> 2

\* The capacity of the OutputQueue a stage declares: one element for the
\* parser and for the line number tracker, ComposeQueueSize for the
\* compositions.
OutputQueueSize(stage) ==
    CASE stage = "DatumParser" -> 1
      [] stage = "DatumLineNumberTracker" -> 1
      [] stage = "DatumCharToTokenPipeline" ->
             ComposeQueueSize(AssumedQueueSize("DatumDecoder"),
                              AssumedQueueSize("DatumPipeTokenizer"))
      [] stage = "DatumCharToValuePipeline" ->
             ComposeQueueSize(ComposeQueueSize(AssumedQueueSize("DatumDecoder"),
                                               AssumedQueueSize("DatumPipeTokenizer")),
                              1)
      [] OTHER -> AssumedQueueSize(stage)

\* DatumBufBoundedPipe::new; pushed is the number of push_back calls of the
\* last buffer_feed, panic records the panic of push_back on a full queue,
\* "Ran out of DatumBoundedQueue space".
BufBoundedPipe(stage, st) ==
    [t |-> "Bounded", stage |-> stage, st |-> st, queue |-> <<>>, err |-> None,
     pushed |-> 0, panic |-> FALSE]

\* DatumBufPipe::compose_buf
ComposeBuf(a, b) ==
    [t |-> "Compose", a |-> a, b |-> b, offset |-> 0, waiting_eof |-> FALSE,
     log |-> <<>>]

\* into_buf_pipe of the char -> value pipeline
CharToValueBuf ==
    ComposeBuf(ComposeBuf(BufBoundedPipe("DatumDecoder", DatumDecoderDefault),
                          BufBoundedPipe("DatumPipeTokenizer", PipeTokenizerDefault)),
               BufBoundedPipe("DatumParser", DatumParserDefault))

\* The decoder behind a line number tracker, composed with the token stage.
TrackedCharToTokenBuf(cell) ==
    ComposeBuf(ComposeBuf(BufBoundedPipe("DatumLineNumberTracker", [cell |-> cell]),
                          BufBoundedPipe("DatumDecoder", DatumDecoderDefault)),
               BufBoundedPipe("DatumPipeTokenizer", PipeTokenizerDefault))

\* The char -> value pipeline composed with callbacks, buffered as one stage.
CharToValueBounded == BufBoundedPipe("DatumCharToValuePipeline", CharToValueDefault)

\* buffer_clear
RECURSIVE BufferClear(_)
BufferClear(p) ==
    IF p.t = "Bounded" THEN [p EXCEPT !.queue = <<>>, !.err = None]
    ELSE [p EXCEPT !.a = BufferClear(p.a), !.b = BufferClear(p.b),
                   !.waiting_eof = FALSE]

\* buffer_feed
RECURSIVE BufferFeed(_, _, _)
BufferFeed(p, at, i) ==
    IF p.t = "Bounded"
    THEN LET Fed(r) ==
                 IF Len(r.outs) > OutputQueueSize(p.stage)
                 THEN [p EXCEPT !.st = r.st, !.panic = TRUE,
                                !.pushed = OutputQueueSize(p.stage) + 1,
                                !.queue = SubSeq(r.outs, 1, OutputQueueSize(p.stage))]
                 ELSE [p EXCEPT !.st = r.st, !.queue = r.outs, !.pushed = Len(r.outs),
                                !.err = IF IsOk(r.res) THEN None ELSE Some(r.res)]
         IN  Fed(StageFeed(p.stage, p.st, at, i, 0))
    ELSE [p EXCEPT !.offset = at, !.b = BufferClear(p.b),
                   !.waiting_eof = p.waiting_eof \/ ~i.some,
                   !.a = BufferFeed(p.a, at, i), !.log = <<>>]

\* buffer_next: the pipe afterwards and the item returned.
RECURSIVE BufferNext(_)
BufferNext(p) ==
    IF p.t = "Bounded"
    THEN IF p.queue # <<>>
         THEN [p |-> [p EXCEPT !.queue = Tail(p.queue)], item |-> Some([kind |-> "Ok", v |-> Head(p.queue)])]
         ELSE IF p.err.some
         THEN [p |-> [p EXCEPT !.err = None], item |-> Some(p.err.v)]
         ELSE [p |-> p, item |-> None]
    ELSE LET AfterA(q, na) ==
                 IF na.item.some /\ IsOk(na.item.v)
                 THEN BufferNext([q EXCEPT !.a = na.p,
                                           !.b = BufferFeed(q.b, na.item.v.v.at,
                                                            Some(na.item.v.v.v)),
                                           !.log = Append(q.log, "value")])
                 ELSE IF na.item.some
                 THEN [p |-> [q EXCEPT !.a = na.p, !.log = Append(q.log, "error")],
                       item |-> na.item]
                 ELSE IF q.waiting_eof
                 THEN BufferNext([q EXCEPT !.a = na.p, !.waiting_eof = FALSE,
                                           !.b = BufferFeed(q.b, q.offset, None),
                                           !.log = Append(q.log, "eof")])
                 ELSE [p |-> [q EXCEPT !.a = na.p], item |-> None]
             AfterB(nb) ==
                 IF nb.item.some
                 THEN [p |-> [p EXCEPT !.b = nb.p], item |-> nb.item]
                 ELSE AfterA([p EXCEPT !.b = nb.p], BufferNext(p.a))
         IN  AfterB(BufferNext(p.b))

---------------------------------------------------------------------------
(* The iterators over a source.  The source is the sequence of the         *)
(* elements it has left.  ViaDatumPipe::next exists twice, in pipe_vdp.rs  *)
(* and in core_types.rs; the iterator records which module defines it.    *)
\* via_datum_pipe
IntoViaDatumPipe(module, source, p) ==
    [module |-> module, offset |-> 0, iterator |-> source, pipeline |-> p,
     buffer |-> <<>>, eof |-> FALSE]

\* via_datum_buf_pipe
IntoViaDatumBufPipe(source, p) ==
    [offset |-> 0, iterator |-> source, pipeline |-> p, eof |-> FALSE]

\* ViaDatumPipe::next of pipe_vdp.rs after the feeds in feeds: the iterator
\* afterwards, the item returned and the feeds made to the pipeline, each
\* with what the pipeline emitted and returned.  The buffer holds outputs;
\* an error is returned at once.
RECURSIVE ViaDatumPipeNext(_, _)
ViaDatumPipeNext(it, feeds) ==
    IF it.buffer # <<>>
    THEN [it |-> [it EXCEPT !.buffer = Tail(it.buffer)],
          item |-> Some([kind |-> "Ok", v |-> Head(it.buffer)]), feeds |-> feeds]
    ELSE IF it.eof THEN [it |-> it, item |-> None, feeds |-> feeds]
    ELSE LET Fed(base_res, r) ==
                 LET polled == [it EXCEPT !.iterator = IF base_res.some THEN Tail(it.iterator) ELSE <<>>,
                                          !.eof = ~base_res.some,
                                          !.pipeline = [it.pipeline EXCEPT !.st = r.st],
                                          !.buffer = [k \in 1..Len(r.outs) |-> r.outs[k].v]]
                     made == Append(feeds, [at |-> it.offset, i |-> base_res,
                                            outs |-> r.outs, res |-> r.res])
                 IN  IF ~IsOk(r.res)
                     THEN [it |-> polled, item |-> Some(r.res), feeds |-> made]
                     ELSE ViaDatumPipeNext([polled EXCEPT !.offset = it.offset + 1], made)
             Polled(base_res) ==
                 Fed(base_res, PipeFeed(it.pipeline, it.offset, base_res, 0))
         IN  Polled(IF it.iterator = <<>> THEN None ELSE Some(Head(it.iterator)))

\* ViaDatumPipe::next of core_types.rs: the buffer holds results, an error
\* is queued behind the outputs of its feed, and the offset always advances.
RECURSIVE ViaDatumPipeNextCoreTypes(_, _)
ViaDatumPipeNextCoreTypes(it, feeds) ==
    IF it.buffer # <<>>
    THEN [it |-> [it EXCEPT !.buffer = Tail(it.buffer)],
          item |-> Some(Head(it.buffer)), feeds |-> feeds]
    ELSE IF it.eof THEN [it |-> it, item |-> None, feeds |-> feeds]
    ELSE LET Fed(base_res, r) ==
                 ViaDatumPipeNextCoreTypes(
                     [it EXCEPT !.iterator = IF base_res.some THEN Tail(it.iterator) ELSE <<>>,
                                !.eof = ~base_res.some,
                                !.pipeline = [it.pipeline EXCEPT !.st = r.st],
                                !.buffer = [k \in 1..Len(r.outs) |->
                                                [kind |-> "Ok", v |-> r.outs[k].v]]
                                           \o (IF IsOk(r.res) THEN <<>> ELSE <<r.res>>),
                                !.offset = it.offset + 1],
                     Append(feeds, [at |-> it.offset, i |-> base_res,
                                    outs |-> r.outs, res |-> r.res]))
             Polled(base_res) ==
                 Fed(base_res, PipeFeed(it.pipeline, it.offset, base_res, 0))
         IN  Polled(IF it.iterator = <<>> THEN None ELSE Some(Head(it.iterator)))

\* ViaDatumBufPipe::next
RECURSIVE ViaDatumBufPipeNext(_)
ViaDatumBufPipeNext(it) ==
    LET Got(n) ==
            IF n.item.some /\ IsOk(n.item.v)
            THEN [it |-> [it EXCEPT !.pipeline = n.p],
                  item |-> Some([kind |-> "Ok", v |-> n.item.v.v.v])]
            ELSE IF n.item.some
            THEN [it |-> [it EXCEPT !.pipeline = n.p], item |-> n.item]
            ELSE IF it.eof
            THEN [it |-> [it EXCEPT !.pipeline = n.p], item |-> None]
            ELSE LET Polled(val) ==
                         ViaDatumBufPipeNext(
                             [offset |-> it.offset + 1,
                              iterator |-> IF val.some THEN Tail(it.iterator) ELSE <<>>,
                              pipeline |-> BufferFeed(n.p, it.offset, val),
                              eof |-> it.eof \/ ~val.some])
                 IN  Polled(IF it.iterator = <<>> THEN None ELSE Some(Head(it.iterator)))
    IN  Got(BufferNext(it.pipeline))

---------------------------------------------------------------------------
(* SpecIter: one source of characters under both iterators, next() called *)
(* on the two in step.  pipe holds the two iterators, text the source,    *)
(* fed the feeds the ViaDatumPipe made to its pipeline, out the pairs of   *)
(* items returned, call the latest call of ViaDatumPipe::next.            *)
MaxIterInput == 3
MaxIterNext == 6

IterChars == {97, CH_LPAREN, CH_RPAREN, CH_SPACE, CH_HASH, CH_BACKSLASH}
IterSources == UNION {[1..n -> IterChars] : n \in 0..MaxIterInput}

InitIter ==
    \E s \in IterSources, module \in {"pipe_vdp", "core_types"} :
        InitWith([kind |-> "Iterators",
                  cb |-> IntoViaDatumPipe(module, s, CharToValue),
                  buf |-> IntoViaDatumBufPipe(s, CharToValueBuf)],
                 NoSrc, s)

\* One call of next() on each iterator.
IterNext ==
    /\ Len(out) < MaxIterNext
    /\ \E c \in {IF pipe.cb.module = "pipe_vdp"
                 THEN ViaDatumPipeNext(pipe.cb, <<>>)
                 ELSE ViaDatumPipeNextCoreTypes(pipe.cb, <<>>)},
          b \in {ViaDatumBufPipeNext(pipe.buf)} :
        /\ pipe' = [pipe EXCEPT !.cb = c.it, !.buf = b.it]
        /\ fed' = fed \o c.feeds
        /\ out' = Append(out, [cb |-> c.item, buf |-> b.item])
        /\ res' = IF c.item.some /\ ~IsOk(c.item.v) THEN c.item.v ELSE Ok
        /\ call' = [made |-> TRUE, pre |-> pipe.cb, feeds |-> c.feeds, item |-> c.item]
    /\ UNCHANGED <<src, text, pc>>

NextIter == IterNext
SpecIter == InitIter /\ [][NextIter]_vars

IsErrItem(item) == item.some /\ ~IsOk(item.v)

\* No error was returned by either iterator in the first n calls.
NoErrorIn(n) == \A k \in 1..n : ~IsErrItem(out[k].cb) /\ ~IsErrItem(out[k].buf)

\* C22: up to and with the first error, the k-th item of the buffered
\* iterator is the k-th item of the callback iterator: the same value, the
\* same error, or the end of the iteration for both.
C22_IteratorsAgree ==
    \A k \in 1..Len(out) : NoErrorIn(k - 1) => out[k].buf = out[k].cb

\* The same for the ViaDatumPipe::next of core_types.rs only.
IteratorsAgreeInCoreTypes == pipe.cb.module = "core_types" => C22_IteratorsAgree


\* The source is polled in order, and the end of input is fed once, when the
\* source has returned None, after which the source is not polled.
EofFedOnce ==
    /\ Len(fed) <= Len(text) + 1
    /\ \A j \in 1..Len(fed) :
           fed[j].i = IF j <= Len(text) THEN Some(text[j]) ELSE None
    /\ pipe.cb.eof <=> Len(fed) = Len(text) + 1

\* A call of next() after the end of input was fed and the buffer was
\* drained returns None and does nothing.
EndsAfterDrain ==
    (call.made /\ call.pre.eof /\ call.pre.buffer = <<>>) =>
        /\ call.item = None
        /\ call.feeds = <<>>
        /\ pipe.cb = call.pre

\* The k-th source element, counted from 0, is fed with the offset k.
ElementOffsets == \A j \in 1..Len(fed) : fed[j].i.some => fed[j].at = j - 1

\* C23: a ViaDatumPipe feeds the end of input once, at the first None of its
\* source, polls the source no more, returns None from every next() once the
\* outputs buffered then are drained, and feeds the k-th source element with
\* the offset k.
C23_IteratorEndOfInput == EofFedOnce /\ EndsAfterDrain /\ ElementOffsets

\* The same for the ViaDatumPipe::next of core_types.rs only.
EndOfInputInCoreTypes == pipe.cb.module = "core_types" => C23_IteratorEndOfInput

\* What the pipeline did in the feeds from..to, in order: every output as
\* an Ok item and, after the outputs of its feed, every error.
RECURSIVE PipelineEvents(_, _)
PipelineEvents(from, to) ==
    IF from > to THEN <<>>
    ELSE [k \in 1..Len(fed[from].outs) |-> [kind |-> "Ok", v |-> fed[from].outs[k].v]]
         \o (IF IsOk(fed[from].res) THEN <<>> ELSE <<fed[from].res>>)
         \o PipelineEvents(from + 1, to)

\* The items the ViaDatumPipe returned in the calls from..to, in order.
RECURSIVE ItemsYielded(_, _)
ItemsYielded(from, to) ==
    IF from > to THEN <<>>
    ELSE (IF out[from].cb.some THEN <<out[from].cb.v>> ELSE <<>>)
         \o ItemsYielded(from + 1, to)

\* The sequence s begins the sequence t.
IsPrefix(s, t) == Len(s) <= Len(t) /\ \A k \in 1..Len(s) : s[k] = t[k]

\* C35: a ViaDatumPipe yields the values and the errors of its pipeline in
\* the order the pipeline produced them: the values a feed emitted before
\* it returned an error come before that error, and none of them after it.
C35_IteratorOrder ==
    IsPrefix(ItemsYielded(1, Len(out)), PipelineEvents(1, Len(fed)))

\* The same for the ViaDatumPipe::next of core_types.rs only.
OrderInCoreTypes == pipe.cb.module = "core_types" => C35_IteratorOrder

\* Under core_types.rs, "a)" gave the value a and then the error of ")".
OrderedInCoreTypes ==
    /\ pipe.cb.module = "core_types"
    /\ text = <<97, CH_RPAREN>>
    /\ Len(out) = 2
    /\ out[1].cb = Some([kind |-> "Ok", v |-> ValueAtom(DatumAtom("Symbol", <<97>>))])
    /\ out[2].cb = Some(Err("BadData", 1))

---------------------------------------------------------------------------
(* SpecKinds: the byte -> value pipeline fed any bytes and ends of input, *)
(* with a callback that may fail, also after an error.                    *)
MaxKindInput == 4

\* a ( ) " # and a backslash, and the bytes C3 and A9
KindBytes == {97, CH_LPAREN, CH_RPAREN, CH_QUOTE, CH_HASH, CH_BACKSLASH, 195, 169}

KindStep(i, fail) ==
    \E r \in {ByteToValueFeed(pipe.st, Len(fed), i, fail)} :
        /\ pipe' = [pipe EXCEPT !.st = r.st]
        /\ fed' = Append(fed, i)
        /\ out' = out \o r.outs
        /\ res' = r.res
        /\ call' = [made |-> TRUE, fail |-> fail]
        /\ UNCHANGED <<src, text, pc>>

KindFeedsByte ==
    /\ Len(fed) < MaxKindInput
    /\ \E b \in KindBytes, fail \in {0, 1} : KindStep(Some(b), fail)

KindFeedsEof ==
    /\ Len(fed) < MaxKindInput + 1
    /\ \E fail \in {0, 1} : KindStep(None, fail)

InitKinds == InitWith(ByteToValue, NoSrc, <<>>)
NextKinds == KindFeedsByte \/ KindFeedsEof
SpecKinds == InitKinds /\ [][NextKinds]_vars

C37_InterruptedOnlyAtEof ==
    res.kind = "Interrupted" => (fed # <<>> /\ ~fed[Len(fed)].some)

\* The end of input after "(" and the first byte of a two-byte character:
\* Interrupted at offset 2.
C37_Witness ==
    /\ fed = <<Some(CH_LPAREN), Some(195), None>>
    /\ res = Err("Interrupted", 2)

---------------------------------------------------------------------------
(* SpecClass: DatumCharClass::identify applied to one character.  fed is  *)
(* the character, out the class returned ("None" for no class).           *)
MaxClassChar == 130

\* Every character up to the bound, and characters of 2, 3 and 4 bytes.
ClassChars == 0..MaxClassChar \cup {233, 8364, 55295, 57344, CH_MAX}

IdentifyChar ==
    /\ fed = <<>>
    /\ \E v \in ClassChars :
        /\ fed' = <<Some(v)>>
        /\ out' = <<Identify(v)>>
    /\ UNCHANGED <<pipe, src, text, res, pc, call>>

InitClass == InitWith([kind |-> "DatumCharClass"], NoSrc, <<>>)
NextClass == IdentifyChar
SpecClass == InitClass /\ [][NextClass]_vars

---------------------------------------------------------------------------
(* SpecLines: a tracker over a cell of any of a few values, fed inputs and *)
(* ends of input, with a callback that may fail.  src is the cell at the  *)
(* start.                                                                  *)
MaxLineInput == 4

\* 0, 1, 0xFFFF, 0xFFFFFFFE and 0xFFFFFFFF
LineCells == {U32(0, 0), U32(0, 1), U32(0, 65535), U32(65535, 65534), U32(65535, 65535)}

\* newline, carriage return, "a" and U+0A0A
LineInputs == {CH_LF, CH_CR, 97, 2570}

InitLines ==
    \E cell \in LineCells :
        InitWith([kind |-> "DatumLineNumberTracker", st |-> [cell |-> cell]],
                 [cell |-> cell], <<>>)

\* One feed call: an input or the end of input.
LineFeeds ==
    /\ Len(fed) < MaxLineInput
    /\ \E i \in {Some(v) : v \in LineInputs} \cup {None}, fail \in {0, 1} :
        \E r \in {LineNumberTrackerFeed(pipe.st, Len(fed), i, fail)} :
            /\ pipe' = [pipe EXCEPT !.st = r.st]
            /\ fed' = Append(fed, i)
            /\ out' = out \o r.outs
            /\ res' = r.res
            /\ call' = [made |-> TRUE, pre |-> pipe.st, i |-> i, fail |-> fail,
                        seen |-> r.seen]
    /\ UNCHANGED <<src, text, pc>>

NextLines == LineFeeds
SpecLines == InitLines /\ [][NextLines]_vars

\* The inputs among the feeds s, each with the offset of its feed.
RECURSIVE PassedOn(_, _)
PassedOn(s, k) ==
    IF k > Len(s) THEN <<>>
    ELSE (IF s[k].some THEN <<[at |-> k - 1, v |-> s[k].v]>> ELSE <<>>) \o PassedOn(s, k + 1)

\* The u32 v plus the small number n, saturating.
PlusSaturating(v, n) ==
    IF v.hi + ((v.lo + n) \div 65536) > 65535 THEN [hi |-> 65535, lo |-> 65535]
    ELSE [hi |-> v.hi + ((v.lo + n) \div 65536), lo |-> (v.lo + n) % 65536]

\* C28: the callback got every input once, unchanged and with its offset,
\* and nothing for an end of input; the cell holds its first value plus the
\* number of inputs equal to 10 fed so far, saturating at the u32 maximum,
\* whether the callback failed or not; and the callback found the cell as
\* it was before the feed.
C28_LineNumberTracker ==
    /\ out = PassedOn(fed, 1)
    /\ pipe.st.cell = PlusSaturating(src.cell, Cardinality({k \in 1..Len(fed) : fed[k] = Some(10)}))
    /\ call.made => call.seen = IF call.i.some THEN Some(call.pre.cell) ELSE None
    /\ (call.made /\ ~call.i.some) => res = Ok

\* A newline fed with a failing callback found the cell at the u32 maximum,
\* reached from 0xFFFFFFFE, and left it there.
C28_Witness ==
    /\ call.made
    /\ call.i = Some(10)
    /\ call.pre.cell = U32(65535, 65535)
    /\ src.cell = U32(65535, 65534)
    /\ res = CbErr
    /\ pipe.st.cell = U32(65535, 65535)

---------------------------------------------------------------------------
(* PlainDeserializer.  Its state is the tokens the iterator has left (an   *)
(* item of type "Err" is an Err(BadData) of the iterator), the token held  *)
(* and last_seen_offset.  Visitors are serde's: of a bool, of a tuple of   *)
(* len bools, of a Vec of bools; a value is a sequence, <<1>> or <<0>> for *)
(* a bool and the sequence of its elements for a tuple or a Vec.  SerdeErr *)
(* is an error a visitor makes.                                            *)
SerdeErr == [kind |-> "Serde", offset |-> 0]

\* PlainDeserializer::from_iterator
FromIterator(iterator) ==
    [iterator |-> iterator, hold |-> None, last_seen_offset |-> 0]

\* PlainDeserializer::next_token
NextToken(d, eof_error) ==
    IF d.hold.some
    THEN [d |-> [d EXCEPT !.hold = None], res |-> Ok, token |-> d.hold.v]
    ELSE IF d.iterator = <<>>
    THEN [d |-> d, res |-> eof_error, token |-> DatumToken("Err", <<>>, 0)]
    ELSE IF Head(d.iterator).type = "Err"
    THEN [d |-> [d EXCEPT !.iterator = Tail(d.iterator)],
          res |-> Err("BadData", Head(d.iterator).at), token |-> Head(d.iterator)]
    ELSE [d |-> [d EXCEPT !.iterator = Tail(d.iterator),
                          !.last_seen_offset = Head(d.iterator).at],
          res |-> Ok, token |-> Head(d.iterator)]

\* A list end taken on trust, without a token read.
ExpectListEndTrusted(d) == [d |-> [d EXCEPT !.hold = None], res |-> Ok]

\* PlainDeserializer::expect_list_end
ExpectListEnd(d) ==
    LET Got(n) ==
            IF ~IsOk(n.res) THEN [d |-> n.d, res |-> n.res]
            ELSE IF n.token.type = "ListEnd" THEN [d |-> n.d, res |-> Ok]
            ELSE [d |-> n.d, res |-> Err("BadData", n.d.last_seen_offset)]
    IN  Got(NextToken(d, Err("Interrupted", d.last_seen_offset)))

RECURSIVE DeserializeAny(_, _)
RECURSIVE NextElementSeed(_)
RECURSIVE VisitSeq(_, _, _)

\* Visitor::visit_seq of the visitor over the AccessWrapper of d, after the
\* elements in values: a tuple stops after len elements, a Vec at the None
\* of next_element, and a bool accepts no sequence.
VisitSeq(d, visitor, values) ==
    IF visitor.t = "bool" THEN [d |-> d, res |-> SerdeErr, value |-> <<>>]
    ELSE IF visitor.t = "tuple" /\ Len(values) = visitor.len
    THEN [d |-> d, res |-> Ok, value |-> values]
    ELSE LET Element(e) ==
                 IF ~IsOk(e.res) THEN [d |-> e.d, res |-> e.res, value |-> <<>>]
                 ELSE IF e.value.some THEN VisitSeq(e.d, visitor, Append(values, e.value.v))
                 ELSE IF visitor.t = "vec" THEN [d |-> e.d, res |-> Ok, value |-> values]
                 ELSE [d |-> e.d, res |-> SerdeErr, value |-> <<>>]
         IN  Element(NextElementSeed(d))

\* SeqAccess::next_element_seed with the seed of a bool
NextElementSeed(d) ==
    LET Got(n) ==
            IF ~IsOk(n.res) THEN [d |-> n.d, res |-> n.res, value |-> None]
            ELSE IF n.token.type = "ListEnd"
            THEN [d |-> [n.d EXCEPT !.hold = Some(n.token)], res |-> Ok, value |-> None]
            ELSE LET Seeded(r) ==
                         [d |-> r.d, res |-> r.res,
                          value |-> IF IsOk(r.res) THEN Some(r.value) ELSE None]
                 IN  Seeded(DeserializeAny([n.d EXCEPT !.hold = Some(n.token)],
                                           [t |-> "bool"]))
    IN  Got(NextToken(d, Err("Interrupted", d.last_seen_offset)))

\* Deserializer::deserialize_any
DeserializeAny(d, visitor) ==
    LET Got(n) ==
            IF ~IsOk(n.res) THEN [d |-> n.d, res |-> n.res, value |-> <<>>]
            ELSE IF n.token.type = "ListStart"
            THEN LET Ended(r, e) ==
                         [d |-> e.d, res |-> e.res,
                          value |-> IF IsOk(e.res) THEN r.value ELSE <<>>]
                     Visited(r) ==
                         IF ~IsOk(r.res) THEN r ELSE Ended(r, ExpectListEnd(r.d))
                 IN  Visited(VisitSeq(n.d, visitor, <<>>))
            ELSE IF n.token.type = "ListEnd"
            THEN [d |-> n.d, res |-> Err("BadData", n.d.last_seen_offset), value |-> <<>>]
            ELSE LET Atom(c) ==
                         IF ~IsOk(c.res) THEN [d |-> n.d, res |-> c.res, value |-> <<>>]
                         ELSE IF c.atom.kind = "Boolean" /\ visitor.t = "bool"
                         THEN [d |-> n.d, res |-> Ok, value |-> c.atom.val]
                         ELSE [d |-> n.d, res |-> SerdeErr, value |-> <<>>]
                 IN  Atom(AtomTryFrom(n.token))
    IN  Got(NextToken(d, Err("Interrupted", d.last_seen_offset)))

---------------------------------------------------------------------------
(* SpecDe: one deserialization of a tuple or a Vec of bools from a         *)
(* sequence of tokens.  text is the sequence, src the visitor, pipe the   *)
(* deserializer, out the value of a success.                               *)
MaxDeInput == 5
MaxTupleLen == 2

\* ( ) #t a and an error of the iterator, at the offset at
DeItem(type, at) ==
    DatumToken(type, IF type = "SpecialID" THEN <<116>> ELSE IF type = "Symbol" THEN <<97>> ELSE <<>>, at)
DeItemTypes == {"ListStart", "ListEnd", "SpecialID", "Symbol", "Err"}
DeSources ==
    UNION {{[k \in 1..n |-> DeItem(types[k], k - 1)] : types \in [1..n -> DeItemTypes]} :
               n \in 0..MaxDeInput}
DeVisitors == {[t |-> "vec", len |-> 0]} \cup {[t |-> "tuple", len |-> n] : n \in 0..MaxTupleLen}

InitDe ==
    \E s \in DeSources, visitor \in DeVisitors :
        InitWith([kind |-> "PlainDeserializer", st |-> FromIterator(s)], visitor, s)

Deserialize ==
    /\ pc = "run"
    /\ \E r \in {DeserializeAny(pipe.st, src)} :
        /\ pipe' = [pipe EXCEPT !.st = r.d]
        /\ out' = IF IsOk(r.res) THEN <<r.value>> ELSE <<>>
        /\ res' = r.res
    /\ pc' = "done"
    /\ UNCHANGED <<src, text, fed, call>>

NextDe == Deserialize
SpecDe == InitDe /\ [][NextDe]_vars

\* The number of tokens taken from the iterator.
TokensTaken == Len(text) - Len(pipe.st.iterator)

IsBool(token) == token.type = "SpecialID" /\ token.val = <<116>>

\* The visitor of a tuple stops before the end of the list: after the list
\* start and as many bools as the tuple has comes a token that is no ListEnd.
StopsEarly ==
    /\ src.t = "tuple"
    /\ Len(text) >= src.len + 2
    /\ text[1].type = "ListStart"
    /\ \A k \in 2..(src.len + 1) : IsBool(text[k])
    /\ text[src.len + 2].type # "ListEnd"

\* C29: a list whose visitor stops before its ListEnd is an error, and a
\* list is deserialized with success only when the token after the elements
\* the visitor took is the ListEnd, which is taken once: it is the last
\* token taken from the iterator and is not held afterwards.
C29_ListsDrained ==
    (pc = "done" /\ text # <<>> /\ text[1].type = "ListStart") =>
        /\ StopsEarly => ~IsOk(res)
        /\ IsOk(res) =>
               /\ TokensTaken = Len(out[1]) + 2
               /\ \A k \in 2..(TokensTaken - 1) : IsBool(text[k])
               /\ text[TokensTaken].type = "ListEnd"
               /\ pipe.st.hold = None
               /\ pipe.st.iterator = SubSeq(text, TokensTaken + 1, Len(text))

\* (#t #t #t) read as a pair of bools is an error.
C29_Witness ==
    /\ pc = "done"
    /\ StopsEarly
    /\ src.len = 2
    /\ Len(text) = 5
    /\ IsBool(text[4])
    /\ text[5].type = "ListEnd"
    /\ res.kind = "BadData"

---------------------------------------------------------------------------
(* SpecBuf: the buffered char -> value pipeline driven through             *)
(* buffer_feed and buffer_next as its callers do: buffer_next is called    *)
(* after a buffer_feed until it returns None or, in DatumPipe::feed, an    *)
(* error; buffer_feed is called again after either.  fed holds the inputs  *)
(* of buffer_feed, out the items buffer_next returned, call.yielded the    *)
(* number of outputs buffer_next returned since the last buffer_feed.      *)
MaxBufInput == 3
MaxBufNext == 6

BufChars == {97, CH_BACKSLASH, CH_LPAREN, CH_RPAREN, CH_QUOTE}

BufPipes == {CharToValueBuf, CharToValueBounded, TrackedCharToTokenBuf(U32(0, 0))}

BufFeeds ==
    /\ pc \in {"run", "drained", "error"}
    /\ Len(fed) < MaxBufInput
    /\ \E i \in {Some(c) : c \in BufChars} \cup {None} :
        /\ pipe' = [pipe EXCEPT !.p = BufferFeed(pipe.p, Len(fed), i)]
        /\ fed' = Append(fed, i)
        /\ call' = [made |-> TRUE, op |-> "buffer_feed", item |-> None, yielded |-> 0]
    /\ pc' = "fed"
    /\ UNCHANGED <<src, text, out, res>>

BufNexts ==
    /\ pc \in {"fed", "error"}
    /\ Len(out) < MaxBufNext
    /\ \E n \in {BufferNext(pipe.p)} :
        /\ pipe' = [pipe EXCEPT !.p = n.p]
        /\ out' = Append(out, n.item)
        /\ res' = IF n.item.some /\ ~IsOk(n.item.v) THEN n.item.v ELSE Ok
        /\ call' = [made |-> TRUE, op |-> "buffer_next", item |-> n.item,
                    yielded |-> call.yielded + (IF n.item.some /\ IsOk(n.item.v) THEN 1 ELSE 0)]
        /\ pc' = IF ~n.item.some THEN "drained"
                 ELSE IF IsOk(n.item.v) THEN "fed" ELSE "error"
    /\ UNCHANGED <<src, text, fed>>

InitBuf == \E p \in BufPipes : InitWith([kind |-> "Buf", p |-> p], NoSrc, <<>>)
NextBuf == BufFeeds \/ BufNexts
SpecBuf == InitBuf /\ [][NextBuf]_vars

\* How many times e is in the log s.
RECURSIVE Count(_, _)
Count(s, e) == IF s = <<>> THEN 0 ELSE (IF Head(s) = e THEN 1 ELSE 0) + Count(Tail(s), e)

\* B was fed the end of input at most once per buffer_feed, and exactly
\* once when the last buffer_feed was the end of input, A reported no error
\* for it and buffer_next has returned None.
EofForwardedOnce(c) ==
    /\ Count(c.log, "eof") <= 1
    /\ (fed # <<>> /\ ~fed[Len(fed)].some /\ pc = "drained" /\ Count(c.log, "error") = 0)
           => Count(c.log, "eof") = 1

\* The end of input is fed to B after the outputs of A: nothing is fed to B
\* behind it.
EofForwardedLast(c) ==
    \A k \in 1..Len(c.log) : c.log[k] = "eof" => \A j \in (k + 1)..Len(c.log) : c.log[j] # "value"

\* B is not fed the end of input that A answered with an error.
EofNotForwardedOnError(c) ==
    (fed # <<>> /\ ~fed[Len(fed)].some /\ Count(c.log, "error") > 0)
        => Count(c.log, "eof") = 0

\* waiting_eof is false whenever buffer_next has returned None.
NotWaitingWhenDrained(c) == pc = "drained" => ~c.waiting_eof

\* A buffer_feed of a real input does not get B fed the end of input.
NoEofForInput(c) ==
    (fed # <<>> /\ fed[Len(fed)].some) => Count(c.log, "eof") = 0

\* The compositions a real input reaches first: the outer one and its A.
Compositions == IF pipe.p.t = "Compose" THEN {pipe.p, pipe.p.a} ELSE {}

\* The parts of C36 that hold, for the composition of the decoder with the
\* tokenizer and for its composition with the parser.
EofForwardedInOrder ==
    \A c \in Compositions :
        EofForwardedOnce(c) /\ EofForwardedLast(c) /\ NotWaitingWhenDrained(c)

\* C36: after a buffer_feed of the end of input a DatumBufComposePipe feeds
\* B the end of input exactly once, after the outputs of A, and never when
\* A reported an error for it; waiting_eof is false whenever buffer_next
\* has returned None; a later buffer_feed of a real input never gets B fed
\* the end of input.
C36_BufferedEndOfInput ==
    \A c \in Compositions :
        /\ EofForwardedOnce(c)
        /\ EofForwardedLast(c)
        /\ EofNotForwardedOnError(c)
        /\ NotWaitingWhenDrained(c)
        /\ NoEofForInput(c)

\* "a", a backslash and the end of input; buffer_next returned the
\* decoder's Interrupted and then, the tokenizer having been fed the end of
\* input all the same, the value a.
EofForwardedAfterError ==
    /\ fed = <<Some(97), Some(CH_BACKSLASH), None>>
    /\ Len(out) >= 2
    /\ out[Len(out) - 1] = Some(Err("Interrupted", 2))
    /\ call.item.some
    /\ IsOk(call.item.v)
    /\ call.item.v.v.v = ValueAtom(DatumAtom("Symbol", <<97>>))


\* The buffered stages of a buffered pipe.
RECURSIVE Leaves(_)
Leaves(p) == IF p.t = "Bounded" THEN {p} ELSE Leaves(p.a) \cup Leaves(p.b)

\* The capacity a buffered pipe has for the outputs of one buffer_feed.
RECURSIVE Capacity(_)
Capacity(p) ==
    IF p.t = "Bounded" THEN OutputQueueSize(p.stage)
    ELSE ComposeQueueSize(Capacity(p.a), Capacity(p.b))

=============================================================================
